---- MODULE Spec2Model ----
(***************************************************************************)
(* forgeops-manager: the pagination iterator (providers/github/api.py),    *)
(* the bulk-delete orchestrators (actions.py, releases.py, cache.py), the  *)
(* code-scanning client and facade (security.py), the follower sync        *)
(* (social.py), the request executors (utils/http_client.py, social.py,    *)
(* security.py), the page-size settings (utils/config.py) and the          *)
(* redaction of log events (utils/structured_logging.py), as state         *)
(* machines.                                                               *)
(*                                                                         *)
(* One set of variables is shared by several specifications, one per       *)
(* operation; a specification holds the variables it does not use at their *)
(* initial value.                                                          *)
(***************************************************************************)
EXTENDS Integers, Sequences, FiniteSets, TLC

VARIABLES
  op,          \* the operation under way
  pages,       \* mocked server: the pages it serves for the URL, in order
  srv,         \* page-numbered server: the collection behind the list endpoint
  live,        \* TRUE: a successful DELETE removes the record from srv
  perPage,     \* per_page_val of paginate; page_size / _page_size of the sync
  page,        \* paginate: page
  buf,         \* paginate: the items of the current page not yet yielded
  pageCount,   \* paginate: len(items) of the current page
  gpc,         \* the listing: "fetch" (about to GET), "yield", "stopped"
  gets,        \* number of GET requests issued
  yielded,     \* the records the iterator has yielded, in order
  result,      \* "running", "ok" (returned), "error" (raised to the caller)
  acted,       \* total / deleted / dismissed counter of the orchestrator
  calls,       \* ids of the records a destructive call was issued for, in order
  lastOutcome, \* outcome of the latest destructive HTTP call
  skips,       \* number of skip events logged
  dryRun,      \* GitHubSecurityClient.dry_run
  chain,       \* the responses the server gives (request executor: has given)
  pos,         \* delete_analysis: index in chain of the next response
  daPc,        \* delete_analysis: "first", "confirm", "follow", "done", "failed"
  target,      \* delete_analysis: URL of the next follow-up DELETE
  reqs,        \* the HTTP requests sent by the code-scanning client, in order
  sleeps,      \* number of rate-limit waits
  endless,     \* delete_analysis: the server goes through its responses again and again
  toolsFilter, \* clear_vulns: the tool names selected (empty: every tool)
  found,       \* delete_analyses: <<the analysis found by the scan>>, or <<>>
  scanned,     \* delete_analyses / dismiss_alerts: scanned
  srv0,        \* the server's collection when the run started
  args,        \* the arguments (and environment) of the call under way
  http,        \* clear_vulns: the requests sent before the mode is looked at
  cvPc,        \* the step of clear_vulns or of the page-size set-up; else "none"
  attempt,     \* request executor: attempt
  slept,       \* request executor: the time.sleep calls made, in order
  now,         \* request executor: int(time.time())
  followers,   \* sync_followers: followers
  following,   \* sync_followers: following
  toFollow,    \* sync_followers: to_follow_set
  toUnfollow,  \* sync_followers: to_unfollow_set
  todo,        \* sync_followers: the (action, username) pairs still to process
  followed,    \* sync_followers: followed
  unfollowed,  \* sync_followers: unfollowed
  skipped,     \* sync_followers: skipped (username -> reason)
  wire,        \* code-scanning client: the methods of the DELETE / PATCH requests sent
  payload,     \* log_event: payload
  mdc,         \* structured_logging: the MDC context (_context_cv)
  message,     \* log_event: the strings held by the message handed to the logger
  line,        \* the strings held by the line the JSON formatter emits
  logPc,       \* logging: "idle", "context", "logged", "emitted"
  body,        \* paginate: data, the JSON value of the page's body
  arrayKey,    \* paginate: array_key
  errKeys,     \* paginate: the keys named by the RuntimeError raised, in order
  operations   \* Provider.operations of the provider chosen: the labels registered

\* the state of one delete_analysis call
daVars == <<dryRun, chain, pos, daPc, target, reqs, sleeps, endless>>

\* the state of the code-scanning bulk operations
secVars == <<toolsFilter, found, scanned, srv0>>

\* the state of the clear_vulns facade
cvVars == <<args, http, cvPc>>

\* the state of one call of a request executor
rxVars == <<attempt, slept, now>>

\* the state of sync_followers
socVars == <<followers, following, toFollow, toUnfollow, todo, followed,
             unfollowed, skipped>>

\* the state of the structured logging
logVars == <<payload, mdc, message, line, logPc>>

\* the state of the operations modelled one call at a time
extVars == <<body, arrayKey, errKeys, operations>>

\* what is observed of a run from outside
obsVars == <<wire, logVars, extVars>>

\* what a call of the code-scanning client leaves alone
quietVars == <<cvVars, rxVars, socVars, logVars, extVars>>

\* what the pagination, bulk-delete and code-scanning steps leave alone
restVars == <<cvVars, rxVars, socVars, obsVars>>

vars == <<op, pages, srv, live, perPage, page, buf, pageCount, gpc, gets,
          yielded, result, acted, calls, lastOutcome, skips, daVars, secVars,
          restVars>>

(***************************************************************************)
(* Bounds of the model.                                                    *)
(***************************************************************************)
\* GitHub's per_page ceiling and paginate's default (100 in api.py:88,94), scaled down
PerPageCap == 2
\* longest mocked page sequence
MaxPages == 3
\* largest server collection
MaxRes == 3

Min(a, b) == IF a < b THEN a ELSE b
Max(a, b) == IF a > b THEN a ELSE b

(***************************************************************************)
(* Values.  A list element is a mapping (dict = TRUE) or anything else; a  *)
(* mapping's id is 0 when rec.get("id") is None.                           *)
(***************************************************************************)
Rec(i) == [dict |-> TRUE, id |-> i]
NoIdRec == [dict |-> TRUE, id |-> 0]
NonDict == [dict |-> FALSE, id |-> 0]

\* the value found under "per_page" in the caller's params
RawPerPage ==
  {[k |-> "absent", v |-> 0], [k |-> "junk", v |-> 0]}
    \cup {[k |-> "int", v |-> n] : n \in -1 .. PerPageCap + 1}

\* api.py: per_page_val from params (default, int() fallback, clamp)
PerPageVal(raw) ==
  LET parsed == IF raw.k = "int" THEN raw.v ELSE PerPageCap
  IN Max(1, Min(parsed, PerPageCap))

RECURSIVE OnlyDicts(_)
\* api.py: _only_dicts
OnlyDicts(seq) ==
  IF seq = <<>> THEN <<>>
  ELSE IF Head(seq).dict THEN <<Head(seq)>> \o OnlyDicts(Tail(seq))
       ELSE OnlyDicts(Tail(seq))

\* the JSON array served for GET ...?page=k&per_page=perPage
ServedPage(k) ==
  IF op = "paginate"
  THEN IF k <= Len(pages) THEN pages[k] ELSE <<>>
  ELSE LET lo == (k - 1) * perPage + 1
           hi == Min(k * perPage, Len(srv))
       IN IF lo > hi THEN <<>> ELSE SubSeq(srv, lo, hi)

(***************************************************************************)
(* paginate (api.py): one GET per step, then the page's items are yielded  *)
(* one by one to the consumer.                                             *)
(***************************************************************************)
\* the page's items, had the elements been kept as the server sent them
PageItems_Raw(raw) == raw

\* the page's items as the last-page test sees them
PageItems(raw) == OnlyDicts(raw)

\* api.py:195: the last-page test
IsLastPage(count, pp) == count < pp

\* paginate resumed after the consumer took the head of buf
Advance(rest) ==
  IF rest # <<>>
  THEN /\ buf' = rest
       /\ UNCHANGED <<page, gpc, result>>
  ELSE /\ buf' = <<>>
       /\ IF IsLastPage(pageCount, perPage)
          THEN gpc' = "stopped" /\ result' = "ok" /\ page' = page
          ELSE gpc' = "fetch" /\ page' = page + 1 /\ result' = result

\* paginate: GET of the next page answered 200 with a JSON array
PaginateGet ==
  /\ result = "running"
  /\ gpc = "fetch"
  /\ gets' = gets + 1
  /\ LET items == PageItems(ServedPage(page))
     IN IF items = <<>>
        THEN /\ gpc' = "stopped"
             /\ result' = "ok"
             /\ buf' = <<>>
             /\ pageCount' = 0
        ELSE /\ gpc' = "yield"
             /\ result' = result
             /\ buf' = items
             /\ pageCount' = Len(items)
  /\ UNCHANGED <<restVars, op, pages, srv, live, perPage, page, yielded, acted, calls,
                 lastOutcome, skips, daVars, secVars>>

\* paginate: GET answered with an error status, raise_for_status raises
PaginateGetFails ==
  /\ result = "running"
  /\ gpc = "fetch"
  /\ gets' = gets + 1
  /\ result' = "error"
  /\ UNCHANGED <<restVars, op, pages, srv, live, perPage, page, buf, pageCount, gpc,
                 yielded, acted, calls, lastOutcome, skips, daVars, secVars>>

\* a caller that only drains the iterator
PaginateNext ==
  /\ op = "paginate"
  /\ result = "running"
  /\ gpc = "yield"
  /\ yielded' = Append(yielded, Head(buf))
  /\ Advance(Tail(buf))
  /\ UNCHANGED <<restVars, op, pages, srv, live, perPage, pageCount, gets, acted, calls,
                 lastOutcome, skips, daVars, secVars>>

NoOutcome == [kind |-> "none", status |-> 0]

\* an absent (null) URL of a response body
NoUrl == [name |-> "", q |-> FALSE, cd |-> FALSE, sep |-> ""]

\* no code-scanning bulk operation under way
SecIdle ==
  /\ toolsFilter = {}
  /\ found = <<>>
  /\ scanned = 0
  /\ srv0 = srv

\* no arguments recorded
NoArgs == [mode |-> ""]

\* a mapping without keys
EmptyMap == [k \in {} |-> 0]

\* no body under examination
NoBody == [shape |-> "none", entries |-> <<>>]

\* no argument given (None)
None == "<None>"

\* none of the operations modelled one call at a time is under way
ExtIdle ==
  /\ body = NoBody
  /\ arrayKey = None
  /\ errKeys = <<>>
  /\ operations = {}

\* nothing observed yet
ObsIdle ==
  /\ ExtIdle
  /\ wire = {}
  /\ payload = EmptyMap
  /\ mdc = EmptyMap
  /\ message = {}
  /\ line = {}
  /\ logPc = "idle"

\* no facade, request executor or follower sync under way
RestIdle ==
  /\ ObsIdle
  /\ args = NoArgs
  /\ http = <<>>
  /\ cvPc = "none"
  /\ attempt = 0
  /\ slept = <<>>
  /\ now = 0
  /\ followers = {}
  /\ following = {}
  /\ toFollow = {}
  /\ toUnfollow = {}
  /\ todo = <<>>
  /\ followed = <<>>
  /\ unfollowed = <<>>
  /\ skipped = <<>>

\* no delete_analysis call under way
DaIdle ==
  /\ dryRun = FALSE
  /\ chain = <<>>
  /\ pos = 1
  /\ daPc = "idle"
  /\ target = NoUrl
  /\ reqs = <<>>
  /\ sleeps = 0
  /\ endless = FALSE

\* a mocked page sequence: pages of at most pp elements, mappings with distinct ids
MockPages(pp) ==
  UNION {
    { [j \in 1 .. n |->
         [i \in 1 .. lens[j] |->
            IF mask[j][i] THEN Rec((j - 1) * PerPageCap + i) ELSE NonDict]]
      : lens \in [1 .. n -> 0 .. pp], mask \in [1 .. n -> [1 .. PerPageCap -> BOOLEAN]] }
    : n \in 0 .. MaxPages }

InitPaginate ==
  /\ RestIdle
  /\ op = "paginate"
  /\ \E raw \in RawPerPage : perPage = PerPageVal(raw)
  /\ pages \in MockPages(perPage)
  /\ srv = <<>>
  /\ live = FALSE
  /\ page = 1
  /\ buf = <<>>
  /\ pageCount = 0
  /\ gpc = "fetch"
  /\ gets = 0
  /\ yielded = <<>>
  /\ result = "running"
  /\ acted = 0
  /\ calls = <<>>
  /\ lastOutcome = NoOutcome
  /\ skips = 0
  /\ DaIdle
  /\ SecIdle

NextPaginate == PaginateGet \/ PaginateGetFails \/ PaginateNext

SpecPaginate == InitPaginate /\ [][NextPaginate]_vars

(***************************************************************************)
(* Bulk-delete orchestrators: delete_all_completed_workflow_runs           *)
(* (actions.py), delete_all_releases (releases.py), delete_all_actions_cache*)
(* (cache.py).  The three loops have the same shape: for each record of    *)
(* paginate(list_url), skip it when it has no id, else gh_delete it and    *)
(* count it; an exception of gh_delete is logged and re-raised.  (The      *)
(* hasattr(rec, "get") test of releases.py and cache.py never fails for the*)
(* mappings paginate yields.)                                              *)
(***************************************************************************)
BulkOps == {"runs", "releases", "caches"}

\* final outcome of http_client.delete: a response, or a RequestException
DeleteOutcomes ==
  {[kind |-> "resp", status |-> s] : s \in {200, 202, 204, 403, 404, 500}}
    \cup {[kind |-> "exc", status |-> 0]}

\* (mutant) gh_delete accepting every response
GhDeleteOk_AnyStatus(o) == o.kind = "resp"

\* api.py: gh_delete returns normally iff the status is 200, 202 or 204
GhDeleteOk(o) == o.kind = "resp" /\ o.status \in {200, 202, 204}

\* (mutant) the missing-id test dropped
HasId_Always(rec) == TRUE

\* actions.py:89-90, releases.py:79-80, cache.py:83-86: rec.get("id") is not None
HasId(rec) == rec.id # 0

\* the server's collection once the record with this id is gone
RemoveId(s, id) == SelectSeq(s, LAMBDA e : e.id # id)

\* the loop body for a record without id: log a skip event, continue
BulkSkip ==
  /\ op \in BulkOps
  /\ result = "running"
  /\ gpc = "yield"
  /\ ~HasId(Head(buf))
  /\ yielded' = Append(yielded, Head(buf))
  /\ skips' = skips + 1
  /\ Advance(Tail(buf))
  /\ UNCHANGED <<restVars, op, pages, srv, live, perPage, pageCount, gets, acted, calls,
                 lastOutcome, daVars, secVars>>

\* the loop body for a record with an id: gh_delete, then count or re-raise
BulkDelete ==
  /\ op \in BulkOps
  /\ result = "running"
  /\ gpc = "yield"
  /\ HasId(Head(buf))
  /\ yielded' = Append(yielded, Head(buf))
  /\ calls' = Append(calls, Head(buf).id)
  /\ \E o \in DeleteOutcomes :
       /\ lastOutcome' = o
       /\ IF GhDeleteOk(o)
          THEN /\ acted' = acted + 1
               /\ srv' = IF live THEN RemoveId(srv, Head(buf).id) ELSE srv
               /\ Advance(Tail(buf))
          ELSE /\ result' = "error"
               /\ UNCHANGED <<acted, srv, buf, page, gpc>>
  /\ UNCHANGED <<restVars, op, pages, live, perPage, pageCount, gets, skips, daVars, secVars>>

\* a collection of at most MaxRes elements; the i-th mapping with an id has id i
Collections ==
  UNION { { [i \in 1 .. n |->
               IF kind[i] = "rec" THEN Rec(i)
               ELSE IF kind[i] = "noid" THEN NoIdRec ELSE NonDict]
            : kind \in [1 .. n -> {"rec", "noid", "nondict"}] }
          : n \in 0 .. MaxRes }

InitBulk ==
  /\ RestIdle
  /\ op \in BulkOps
  /\ pages = <<>>
  /\ srv \in Collections
  /\ live \in BOOLEAN
  /\ perPage = PerPageVal([k |-> "absent", v |-> 0])
  /\ page = 1
  /\ buf = <<>>
  /\ pageCount = 0
  /\ gpc = "fetch"
  /\ gets = 0
  /\ yielded = <<>>
  /\ result = "running"
  /\ acted = 0
  /\ calls = <<>>
  /\ lastOutcome = NoOutcome
  /\ skips = 0
  /\ DaIdle
  /\ SecIdle

NextBulk == PaginateGet \/ PaginateGetFails \/ BulkSkip \/ BulkDelete

SpecBulk == InitBulk /\ [][NextBulk]_vars

(***************************************************************************)
(* GitHubSecurityClient.delete_analysis (security.py): the multi-step      *)
(* DELETE protocol.  One step per _request / _delete_raw_url call; the     *)
(* server's answers are a script (chain), and a request made after the     *)
(* script is exhausted raises out of the session, as a mock whose          *)
(* side_effect list is exhausted does; an endless server goes through the  *)
(* script again and again instead.                                         *)
(***************************************************************************)
\* longest scripted response chain
MaxChain == 3

\* the counters of the model saturate here, so that a run that goes on for ever
\* goes through finitely many states
CounterCap == 8

Inc(x) == IF x < CounterCap THEN x + 1 ELSE x
Add(x, n) == Min(x + n, CounterCap)
AppendCapped(seq, e) == IF Len(seq) < CounterCap THEN Append(seq, e) ELSE seq

\* server-supplied continuation URLs: without query string, with one, and with
\* the confirm_delete flag already in it
UrlA == [name |-> "A", q |-> FALSE, cd |-> FALSE, sep |-> ""]
UrlB == [name |-> "B", q |-> TRUE, cd |-> FALSE, sep |-> ""]
UrlN == [name |-> "N", q |-> TRUE, cd |-> TRUE, sep |-> ""]

\* security.py:263: base_path, and security.py:300: path_with_confirm
BasePath == [name |-> "base", q |-> FALSE, cd |-> FALSE, sep |-> ""]
PathWithConfirm == [name |-> "base", q |-> TRUE, cd |-> TRUE, sep |-> "?"]

\* a response: status, the two URLs of its JSON body, whether its text mentions
\* confirm_delete, whether its headers say X-RateLimit-Remaining <= 0
Resp(st, c, n, needs, limited) ==
  [status |-> st, confirm |-> c, next |-> n, needConfirm |-> needs, rl |-> limited]

NoResp == Resp(0, NoUrl, NoUrl, FALSE, FALSE)

Responses ==
  { Resp(204, NoUrl, NoUrl, FALSE, FALSE),
    Resp(200, UrlA, NoUrl, FALSE, FALSE),
    Resp(200, UrlB, NoUrl, FALSE, FALSE),
    Resp(200, NoUrl, UrlN, FALSE, FALSE),
    Resp(202, UrlA, UrlN, FALSE, FALSE),
    Resp(200, NoUrl, NoUrl, FALSE, FALSE),
    Resp(400, NoUrl, NoUrl, TRUE, FALSE),
    Resp(400, NoUrl, NoUrl, FALSE, FALSE),
    Resp(404, NoUrl, NoUrl, FALSE, FALSE),
    Resp(403, NoUrl, NoUrl, FALSE, TRUE),
    Resp(200, UrlA, NoUrl, FALSE, TRUE) }

Chains == UNION { [1 .. n -> Responses] : n \in 0 .. MaxChain }

\* the server answers request number i, and what it answers
Answers(i) == IF endless THEN chain # <<>> ELSE i <= Len(chain)
AnswerAt(i) == IF endless THEN chain[((i - 1) % Len(chain)) + 1] ELSE chain[i]

\* the number of the request after n more requests; with an endless server the
\* numbers go round the script
NextPos(i, n) == IF endless /\ chain # <<>> THEN ((i + n - 1) % Len(chain)) + 1 ELSE i + n

\* security.py:148-209: _request with _rate_limit_retry_if_needed: the response
\* at chain position i, or, when it says the rate limit is exhausted, a sleep and
\* the response of one retry
ApiRequest(i) ==
  IF ~Answers(i)
  THEN [exc |-> TRUE, resp |-> NoResp, used |-> 1, slept |-> 0]
  ELSE IF ~AnswerAt(i).rl
  THEN [exc |-> FALSE, resp |-> AnswerAt(i), used |-> 1, slept |-> 0]
  ELSE IF ~Answers(i + 1)
  THEN [exc |-> TRUE, resp |-> NoResp, used |-> 2, slept |-> 1]
  ELSE [exc |-> FALSE, resp |-> AnswerAt(i + 1), used |-> 2, slept |-> 1]

\* security.py:274-284: _delete_raw_url: session.delete, no rate-limit handling
RawDelete(i) ==
  IF ~Answers(i)
  THEN [exc |-> TRUE, resp |-> NoResp, used |-> 1, slept |-> 0]
  ELSE [exc |-> FALSE, resp |-> AnswerAt(i), used |-> 1, slept |-> 0]

\* (mutant) any 400 taken as a request for confirmation
NeedsConfirm_Any400(r) == r.status = 400

\* security.py:299: status 400 and "confirm_delete" in the text of the response
NeedsConfirm(r) == r.status = 400 /\ r.needConfirm

\* (mutant) next_analysis_url taking precedence
FollowUrl_NextFirst(r) == IF r.next # NoUrl THEN r.next ELSE r.confirm

\* (mutant) a 404 (the analysis is gone) taken as success
IsDoneStatus_Or404(st) == st \in {204, 404}

\* security.py:289, 302, 354, 398: status 204: finished
IsDoneStatus(st) == st = 204

\* (mutant) only next_analysis_url decides that nothing is left to follow
IsFinal_NextOnly(r) == r.next = NoUrl

\* security.py:322, 372: not confirm_url and not next_url
IsFinal(r) == r.confirm = NoUrl /\ r.next = NoUrl

\* security.py:331, 380: confirm_delete_url takes precedence
FollowUrl(r) == IF r.confirm # NoUrl THEN r.confirm ELSE r.next

\* security.py:349-351, 394-396: make sure confirm_delete= is in the query string
EnsureConfirm(u) ==
  IF u.cd THEN u
  ELSE [u EXCEPT !.cd = TRUE, !.q = TRUE, !.sep = IF u.q THEN "&" ELSE "?"]

\* security.py:289-296 (and 302-308, 322-328, 355-361, 372-378, 399-405): return
DaDone ==
  /\ daPc' = "done"
  /\ result' = "ok"
  /\ UNCHANGED <<target, lastOutcome>>

\* security.py:407-434: RuntimeError with the status and the text of the response
\* at hand; or the exception of the transport goes up
DaFailed(r) ==
  /\ daPc' = "failed"
  /\ result' = "error"
  /\ target' = target
  /\ lastOutcome' = IF r.exc THEN [kind |-> "exc", status |-> 0]
                    ELSE [kind |-> "RuntimeError", status |-> r.resp.status]

\* security.py:312-352, 363-396: a 200/202 response: finished, or a follow-up URL
DaHandle200(r) ==
  IF IsFinal(r)
  THEN DaDone
  ELSE /\ daPc' = "follow"
       /\ target' = EnsureConfirm(FollowUrl(r))
       /\ UNCHANGED <<result, lastOutcome>>

\* security.py:265-272: delete_analysis goes on to send requests unless dry_run
DeleteAnalysisSends(dry) == ~dry

DaSend(r, url) ==
  /\ pos' = NextPos(pos, r.used)
  /\ reqs' = IF r.used = 1 THEN AppendCapped(reqs, url)
             ELSE AppendCapped(AppendCapped(reqs, url), url)
  /\ sleeps' = Add(sleeps, r.slept)
  /\ wire' = wire \cup {"DELETE"}

\* security.py:265-272: dry-run: nothing is sent
DaDryRun ==
  /\ op = "delete_analysis"
  /\ result = "running"
  /\ daPc = "first"
  /\ ~DeleteAnalysisSends(dryRun)
  /\ DaDone
  /\ UNCHANGED <<pos, reqs, sleeps>>
  /\ UNCHANGED <<restVars, op, pages, srv, live, perPage, page, buf, pageCount, gpc, gets,
                 yielded, acted, calls, skips, dryRun, chain, endless, secVars>>

\* security.py:286-352, 423-434: the first DELETE, on the base path
DaFirst ==
  /\ op = "delete_analysis"
  /\ result = "running"
  /\ daPc = "first"
  /\ DeleteAnalysisSends(dryRun)
  /\ LET r == ApiRequest(pos)
     IN /\ DaSend(r, BasePath)
        /\ IF r.exc THEN DaFailed(r)
           ELSE IF IsDoneStatus(r.resp.status) THEN DaDone
           ELSE IF NeedsConfirm(r.resp)
                THEN daPc' = "confirm" /\ UNCHANGED <<result, target, lastOutcome>>
           ELSE IF r.resp.status \in {200, 202} THEN DaHandle200(r.resp)
           ELSE DaFailed(r)
  /\ UNCHANGED <<quietVars, op, pages, srv, live, perPage, page, buf, pageCount, gpc, gets,
                 yielded, acted, calls, skips, dryRun, chain, endless, secVars>>

\* security.py:299-352, 423-434: after a 400 asking for confirmation, the DELETE
\* with ?confirm_delete=true
DaConfirm ==
  /\ op = "delete_analysis"
  /\ result = "running"
  /\ daPc = "confirm"
  /\ LET r == ApiRequest(pos)
     IN /\ DaSend(r, PathWithConfirm)
        /\ IF r.exc THEN DaFailed(r)
           ELSE IF IsDoneStatus(r.resp.status) THEN DaDone
           ELSE IF r.resp.status \in {200, 202} THEN DaHandle200(r.resp)
           ELSE DaFailed(r)
  /\ UNCHANGED <<quietVars, op, pages, srv, live, perPage, page, buf, pageCount, gpc, gets,
                 yielded, acted, calls, skips, dryRun, chain, endless, secVars>>

\* security.py:353-421: a follow-up DELETE on the confirm/next URL
DaFollow ==
  /\ op = "delete_analysis"
  /\ result = "running"
  /\ daPc = "follow"
  /\ LET r == RawDelete(pos)
     IN /\ DaSend(r, target)
        /\ IF r.exc THEN DaFailed(r)
           ELSE IF IsDoneStatus(r.resp.status) THEN DaDone
           ELSE IF r.resp.status \in {200, 202} THEN DaHandle200(r.resp)
           ELSE DaFailed(r)
  /\ UNCHANGED <<quietVars, op, pages, srv, live, perPage, page, buf, pageCount, gpc, gets,
                 yielded, acted, calls, skips, dryRun, chain, endless, secVars>>

InitDeleteAnalysis ==
  /\ RestIdle
  /\ op = "delete_analysis"
  /\ pages = <<>>
  /\ srv = <<>>
  /\ live = FALSE
  /\ perPage = PerPageCap
  /\ page = 1
  /\ buf = <<>>
  /\ pageCount = 0
  /\ gpc = "stopped"
  /\ gets = 0
  /\ yielded = <<>>
  /\ result = "running"
  /\ acted = 0
  /\ calls = <<>>
  /\ lastOutcome = NoOutcome
  /\ skips = 0
  /\ dryRun \in BOOLEAN
  /\ chain \in Chains
  /\ pos = 1
  /\ daPc = "first"
  /\ target = NoUrl
  /\ reqs = <<>>
  /\ sleeps = 0
  /\ endless = FALSE
  /\ SecIdle

NextDeleteAnalysis == DaDryRun \/ DaFirst \/ DaConfirm \/ DaFollow

SpecDeleteAnalysis == InitDeleteAnalysis /\ [][NextDeleteAnalysis]_vars

\* a server that never runs out of answers: it goes round a script of two or
\* more responses
InitDeleteEndless ==
  /\ RestIdle
  /\ op = "delete_analysis"
  /\ pages = <<>>
  /\ srv = <<>>
  /\ live = FALSE
  /\ perPage = PerPageCap
  /\ page = 1
  /\ buf = <<>>
  /\ pageCount = 0
  /\ gpc = "stopped"
  /\ gets = 0
  /\ yielded = <<>>
  /\ result = "running"
  /\ acted = 0
  /\ calls = <<>>
  /\ lastOutcome = NoOutcome
  /\ skips = 0
  /\ dryRun \in BOOLEAN
  /\ chain \in {c \in Chains : Len(c) >= 2}
  /\ pos = 1
  /\ daPc = "first"
  /\ target = NoUrl
  /\ reqs = <<>>
  /\ sleeps = 0
  /\ endless = TRUE
  /\ SecIdle

\* delete_analysis against a scripted or an endless server
SpecFollowing ==
  (InitDeleteAnalysis \/ InitDeleteEndless) /\ [][NextDeleteAnalysis]_vars

\* the call is one thread that always takes its next step
FairSpecFollowing == SpecFollowing /\ WF_vars(NextDeleteAnalysis)

(***************************************************************************)
(* delete_analyses (security.py): scan the analysis list from its first    *)
(* page for the first tool-selected deletable analysis, delete it, repeat. *)
(* delete_analysis is taken by its outcome here: it returns (in dry-run    *)
(* without having sent anything) or it raises.                             *)
(***************************************************************************)
\* the value under "id" (analysis) or "number" (alert): absent, an integer, or a
\* string: str with v >= 0 is the decimal text of v, str with v < 0 is not a number
NoNum == [k |-> "none", v |-> 0]
IntNum(n) == [k |-> "int", v |-> n]
StrNum(n) == [k |-> "str", v |-> n]
BadNum == [k |-> "str", v |-> -1]

\* (mutant) int() refusing every string
ParseInt_IntOnly(x) ==
  IF x.k = "int" THEN [ok |-> TRUE, val |-> x.v] ELSE [ok |-> FALSE, val |-> 0]

\* security.py:577-586, 653-661: "is None" test, then int(value)
ParseInt(x) ==
  IF x.k = "int" THEN [ok |-> TRUE, val |-> x.v]
  ELSE IF x.k = "str" /\ x.v >= 0 THEN [ok |-> TRUE, val |-> x.v]
  ELSE [ok |-> FALSE, val |-> 0]

\* an analysis or an alert: key is its identity on the server, tool is "" when
\* the record has no tool name
SecRec(key, tool, deletable, num) ==
  [dict |-> TRUE, key |-> key, tool |-> tool, deletable |-> deletable, num |-> num]
SecNonDict(key) ==
  [dict |-> FALSE, key |-> key, tool |-> "", deletable |-> FALSE, num |-> NoNum]

\* (mutant) a record without tool name passes every filter
IsToolSelected_NoNameOk(tool, filter) == filter = {} \/ tool = "" \/ tool \in filter

\* security.py:530-535
IsToolSelected(tool, filter) ==
  IF filter = {} THEN TRUE
  ELSE IF tool = "" THEN FALSE
  ELSE tool \in filter

\* parse_tools_csv of the default "Trivy,Grype", and of ""
ToolFilters == {{"Trivy", "Grype"}, {}}

AnalysisKinds ==
  {"trivy_del", "trivy_keep", "codeql_del", "notool_del", "trivy_del_noid",
   "trivy_del_badid", "nondict"}

Analysis(i, kind) ==
  IF kind = "trivy_del" THEN SecRec(i, "Trivy", TRUE, IntNum(i))
  ELSE IF kind = "trivy_keep" THEN SecRec(i, "Trivy", FALSE, IntNum(i))
  ELSE IF kind = "codeql_del" THEN SecRec(i, "CodeQL", TRUE, IntNum(i))
  ELSE IF kind = "notool_del" THEN SecRec(i, "", TRUE, IntNum(i))
  ELSE IF kind = "trivy_del_noid" THEN SecRec(i, "Trivy", TRUE, NoNum)
  ELSE IF kind = "trivy_del_badid" THEN SecRec(i, "Trivy", TRUE, BadNum)
  ELSE SecNonDict(i)

AnalysisLists ==
  UNION { { [i \in 1 .. n |-> Analysis(i, kind[i])] : kind \in [1 .. n -> AnalysisKinds] }
          : n \in 0 .. MaxRes }

\* security.py:566-571: the scan stops at this record
IsCandidate(a) == a.dict /\ IsToolSelected(a.tool, toolsFilter) /\ a.deletable

\* index in the list of the first candidate, 0 when there is none
FirstCandidate(list) ==
  IF \E i \in 1 .. Len(list) : IsCandidate(list[i])
  THEN CHOOSE i \in 1 .. Len(list) :
         IsCandidate(list[i]) /\ \A h \in 1 .. i - 1 : ~IsCandidate(list[h])
  ELSE 0

\* number of pages of pp elements needed to reach element i
PagesUpTo(i, pp) == (i + pp - 1) \div pp

RemoveKey(list, key) == SelectSeq(list, LAMBDA e : e.key # key)

\* security.py:550-575: one scan: list_code_scanning_analyses from page 1, counting
\* every mapping, up to the first candidate; without candidate the run returns
DasScan ==
  /\ op = "delete_analyses"
  /\ result = "running"
  /\ found = <<>>
  /\ LET i == FirstCandidate(srv)
     IN IF i = 0
        THEN /\ scanned' = Add(scanned, Len(OnlyDicts(srv)))
             /\ gets' = Add(gets, PagesUpTo(Len(srv), perPage) + 1)
             /\ found' = <<>>
             /\ result' = "ok"
        ELSE /\ scanned' = Add(scanned, Len(OnlyDicts(SubSeq(srv, 1, i))))
             /\ gets' = Add(gets, PagesUpTo(i, perPage))
             /\ found' = <<srv[i]>>
             /\ result' = result
  /\ UNCHANGED <<restVars, op, pages, srv, live, perPage, page, buf, pageCount, gpc,
                 yielded, acted, calls, lastOutcome, skips, daVars, toolsFilter, srv0>>

\* security.py:221-228: a GET of the list answers with a status other than 200
DasScanFails ==
  /\ op = "delete_analyses"
  /\ result = "running"
  /\ found = <<>>
  /\ gets' = Inc(gets)
  /\ result' = "error"
  /\ UNCHANGED <<restVars, op, pages, srv, live, perPage, page, buf, pageCount, gpc,
                 yielded, acted, calls, lastOutcome, skips, daVars, toolsFilter,
                 found, scanned, srv0>>

\* security.py:577-586: the found analysis has no usable id: log, continue
DasSkipFound ==
  /\ op = "delete_analyses"
  /\ result = "running"
  /\ found # <<>>
  /\ ~ParseInt(found[1].num).ok
  /\ skips' = Inc(skips)
  /\ found' = <<>>
  /\ UNCHANGED <<restVars, op, pages, srv, live, perPage, page, buf, pageCount, gpc, gets,
                 yielded, result, acted, calls, lastOutcome, daVars, toolsFilter,
                 scanned, srv0>>

DeleteAnalysisOutcomes ==
  IF ~DeleteAnalysisSends(dryRun) THEN {"returned"} ELSE {"returned", "raised"}

\* security.py:597-619: gh.delete_analysis(analysis_id); an exception is logged
\* and the while loop goes on
DasDelete ==
  /\ op = "delete_analyses"
  /\ result = "running"
  /\ found # <<>>
  /\ ParseInt(found[1].num).ok
  /\ calls' = AppendCapped(calls, ParseInt(found[1].num).val)
  /\ \E o \in DeleteAnalysisOutcomes :
       /\ lastOutcome' = [kind |-> o, status |-> 0]
       /\ IF o = "returned"
          THEN /\ acted' = Inc(acted)
               /\ srv' = IF dryRun \/ ~live THEN srv ELSE RemoveKey(srv, found[1].key)
          ELSE UNCHANGED <<acted, srv>>
  /\ wire' = IF DeleteAnalysisSends(dryRun) THEN wire \cup {"DELETE"} ELSE wire
  /\ found' = <<>>
  /\ UNCHANGED <<quietVars, op, pages, live, perPage, page, buf, pageCount, gpc, gets,
                 yielded, result, skips, daVars, toolsFilter, scanned, srv0>>

InitDeleteAnalyses ==
  /\ RestIdle
  /\ op = "delete_analyses"
  /\ pages = <<>>
  /\ srv \in AnalysisLists
  /\ live = TRUE
  /\ perPage = PerPageCap
  /\ page = 1
  /\ buf = <<>>
  /\ pageCount = 0
  /\ gpc = "stopped"
  /\ gets = 0
  /\ yielded = <<>>
  /\ result = "running"
  /\ acted = 0
  /\ calls = <<>>
  /\ lastOutcome = NoOutcome
  /\ skips = 0
  /\ dryRun \in BOOLEAN
  /\ chain = <<>>
  /\ pos = 1
  /\ daPc = "idle"
  /\ target = NoUrl
  /\ reqs = <<>>
  /\ sleeps = 0
  /\ endless = FALSE
  /\ toolsFilter \in ToolFilters
  /\ found = <<>>
  /\ scanned = 0
  /\ srv0 = srv

NextDeleteAnalyses == DasScan \/ DasScanFails \/ DasSkipFound \/ DasDelete

SpecDeleteAnalyses == InitDeleteAnalyses /\ [][NextDeleteAnalyses]_vars

\* the program is a single thread that always takes its next step
FairSpecDeleteAnalyses == SpecDeleteAnalyses /\ WF_vars(NextDeleteAnalyses)

(***************************************************************************)
(* dismiss_alerts (security.py): one pass over list_code_scanning_alerts;  *)
(* every tool-selected alert with a usable number gets one dismiss_alert   *)
(* call, whose exception is logged and swallowed.                          *)
(***************************************************************************)
AlertKinds ==
  {"trivy_int", "codeql_int", "notool_int", "trivy_none", "trivy_bad",
   "trivy_str", "nondict"}

Alert(i, kind) ==
  IF kind = "trivy_int" THEN SecRec(i, "Trivy", FALSE, IntNum(i))
  ELSE IF kind = "codeql_int" THEN SecRec(i, "CodeQL", FALSE, IntNum(i))
  ELSE IF kind = "notool_int" THEN SecRec(i, "", FALSE, IntNum(i))
  ELSE IF kind = "trivy_none" THEN SecRec(i, "Trivy", FALSE, NoNum)
  ELSE IF kind = "trivy_bad" THEN SecRec(i, "Trivy", FALSE, BadNum)
  ELSE IF kind = "trivy_str" THEN SecRec(i, "Trivy", FALSE, StrNum(i))
  ELSE SecNonDict(i)

AlertLists ==
  UNION { { [i \in 1 .. n |-> Alert(i, kind[i])] : kind \in [1 .. n -> AlertKinds] }
          : n \in 0 .. MaxRes }

\* (mutant) dismiss_alert sending its PATCH whatever dry_run says
DismissAlertSends_Always(dry) == TRUE

\* security.py:495-502: dismiss_alert goes on to send its PATCH unless dry_run
DismissAlertSends(dry) == ~dry

\* what a dismiss_alert call comes to: nothing sent (dry-run), the status of the
\* PATCH, or an exception of the transport
DismissOutcomes ==
  IF ~DismissAlertSends(dryRun) THEN {[kind |-> "dry", status |-> 0]}
  ELSE {[kind |-> "resp", status |-> s] : s \in {200, 404}}
         \cup {[kind |-> "exc", status |-> 0]}

\* (mutant) dismiss_alert never raising
DismissAlertOk_Always(o) == TRUE

\* security.py:495-516: dismiss_alert returns normally
DismissAlertOk(o) == o.kind = "dry" \/ (o.kind = "resp" /\ o.status = 200)

\* list_code_scanning_alerts resumed after the consumer took the head of buf:
\* the rest of the page, or page += 1 and the next GET
AlertsAdvance(rest) ==
  IF rest # <<>>
  THEN buf' = rest /\ UNCHANGED <<page, gpc>>
  ELSE buf' = <<>> /\ page' = page + 1 /\ gpc' = "fetch"

\* security.py:444-481: GET of the next page answered 200: an empty body ends the
\* listing (and with it dismiss_alerts), else its mappings are yielded
AlertsGet ==
  /\ op = "dismiss_alerts"
  /\ result = "running"
  /\ gpc = "fetch"
  /\ gets' = gets + 1
  /\ LET raw == ServedPage(page)
     IN IF raw = <<>>
        THEN /\ gpc' = "stopped"
             /\ result' = "ok"
             /\ UNCHANGED <<buf, page>>
        ELSE /\ result' = result
             /\ IF OnlyDicts(raw) = <<>>
                THEN buf' = <<>> /\ page' = page + 1 /\ gpc' = gpc
                ELSE buf' = OnlyDicts(raw) /\ page' = page /\ gpc' = "yield"
  /\ UNCHANGED <<restVars, op, pages, srv, live, perPage, pageCount, yielded, acted, calls,
                 lastOutcome, skips, daVars, secVars>>

\* security.py:448-455, 460-467: the GET answers with a status other than 200 or
\* with a body that is not an array: RuntimeError, out of dismiss_alerts
AlertsGetFails ==
  /\ op = "dismiss_alerts"
  /\ result = "running"
  /\ gpc = "fetch"
  /\ gets' = gets + 1
  /\ gpc' = "stopped"
  /\ result' = "error"
  /\ UNCHANGED <<restVars, op, pages, srv, live, perPage, page, buf, pageCount, yielded,
                 acted, calls, lastOutcome, skips, daVars, secVars>>

\* security.py:638-650: an alert the tool filter leaves out
DisFiltered ==
  /\ op = "dismiss_alerts"
  /\ result = "running"
  /\ gpc = "yield"
  /\ ~IsToolSelected(Head(buf).tool, toolsFilter)
  /\ scanned' = scanned + 1
  /\ yielded' = Append(yielded, Head(buf))
  /\ AlertsAdvance(Tail(buf))
  /\ UNCHANGED <<restVars, op, pages, srv, live, perPage, pageCount, gets, result, acted,
                 calls, lastOutcome, skips, daVars, toolsFilter, found, srv0>>

\* security.py:652-660: number missing or refused by int(): log, continue
DisSkipNumber ==
  /\ op = "dismiss_alerts"
  /\ result = "running"
  /\ gpc = "yield"
  /\ IsToolSelected(Head(buf).tool, toolsFilter)
  /\ ~ParseInt(Head(buf).num).ok
  /\ scanned' = scanned + 1
  /\ yielded' = Append(yielded, Head(buf))
  /\ skips' = skips + 1
  /\ AlertsAdvance(Tail(buf))
  /\ UNCHANGED <<restVars, op, pages, srv, live, perPage, pageCount, gets, result, acted,
                 calls, lastOutcome, daVars, toolsFilter, found, srv0>>

\* security.py:674-697: gh.dismiss_alert(number); counted when it returns, logged
\* when it raises; either way the for loop goes on
DisDismiss ==
  /\ op = "dismiss_alerts"
  /\ result = "running"
  /\ gpc = "yield"
  /\ IsToolSelected(Head(buf).tool, toolsFilter)
  /\ ParseInt(Head(buf).num).ok
  /\ scanned' = scanned + 1
  /\ yielded' = Append(yielded, Head(buf))
  /\ \E o \in DismissOutcomes :
       /\ lastOutcome' = o
       /\ calls' = Append(calls, [n |-> ParseInt(Head(buf).num).val, o |-> o])
       /\ IF DismissAlertOk(o)
          THEN /\ acted' = acted + 1
               /\ srv' = IF live /\ ~dryRun THEN RemoveKey(srv, Head(buf).key) ELSE srv
          ELSE UNCHANGED <<acted, srv>>
  /\ wire' = IF DismissAlertSends(dryRun) THEN wire \cup {"PATCH"} ELSE wire
  /\ AlertsAdvance(Tail(buf))
  /\ UNCHANGED <<quietVars, op, pages, live, perPage, pageCount, gets, result, skips, daVars,
                 toolsFilter, found, srv0>>

\* live: the listing is the server's list of open alerts, which a dismissed alert
\* leaves; not live: a listing that stays as it is (another state, or a stub)
InitDismiss ==
  /\ RestIdle
  /\ op = "dismiss_alerts"
  /\ pages = <<>>
  /\ srv \in AlertLists
  /\ live \in BOOLEAN
  /\ perPage = PerPageCap
  /\ page = 1
  /\ buf = <<>>
  /\ pageCount = 0
  /\ gpc = "fetch"
  /\ gets = 0
  /\ yielded = <<>>
  /\ result = "running"
  /\ acted = 0
  /\ calls = <<>>
  /\ lastOutcome = NoOutcome
  /\ skips = 0
  /\ dryRun \in BOOLEAN
  /\ chain = <<>>
  /\ pos = 1
  /\ daPc = "idle"
  /\ target = NoUrl
  /\ reqs = <<>>
  /\ sleeps = 0
  /\ endless = FALSE
  /\ toolsFilter \in ToolFilters
  /\ found = <<>>
  /\ scanned = 0
  /\ srv0 = srv

NextDismiss == AlertsGet \/ AlertsGetFails \/ DisFiltered \/ DisSkipNumber \/ DisDismiss

SpecDismiss == InitDismiss /\ [][NextDismiss]_vars

(***************************************************************************)
(* clear_vulns (security.py): token, session (ensure_github_token_ready of *)
(* token_guard.py when none is passed), client, then the dispatch on mode  *)
(* to delete_analyses or dismiss_alerts, whose steps follow.               *)
(***************************************************************************)
Modes == {"delete", "dismiss", "purge"}
ValidReasons == {"false_positive", "won't_fix", "used_in_tests"}
Reasons == ValidReasons \cup {"invalid"}

\* what GET /user tells of the token: no X-OAuth-Scopes header, scopes that hold
\* security_events, scopes that lack it, or the request fails in the transport
ScopeKinds == {"none", "ok", "missing", "neterr"}

\* the operation a mode stands for
OpOfMode(m) ==
  IF m = "delete" THEN "delete_analyses"
  ELSE IF m = "dismiss" THEN "dismiss_alerts"
  ELSE "clear_vulns"

\* security.py:726-728: token from the argument or the environment, else ValueError
CvToken ==
  /\ cvPc = "token"
  /\ IF args.token
     THEN cvPc' = "session" /\ result' = result
     ELSE cvPc' = "done" /\ result' = "ValueError"
  /\ UNCHANGED <<op, pages, srv, live, perPage, page, buf, pageCount, gpc, gets,
                 yielded, acted, calls, lastOutcome, skips, daVars, secVars,
                 args, http, rxVars, socVars,
                 obsVars>>

\* security.py:731-743 with token_guard.py:321-345: without a session passed in,
\* GET /user (scopes), the scope test, GET /rate_limit and the read-only probe
\* GET /repos/{repo}/code-scanning/alerts?per_page=1
CvSession ==
  /\ cvPc = "session"
  /\ IF args.session
     THEN /\ cvPc' = "dispatch"
          /\ UNCHANGED <<http, result>>
     ELSE IF args.scopes = "neterr"
     THEN /\ http' = <<"GET /user">>
          /\ cvPc' = "done"
          /\ result' = "RequestException"
     ELSE IF args.scopes = "missing"
     THEN /\ http' = <<"GET /user">>
          /\ cvPc' = "done"
          /\ result' = "TokenScopeError"
     ELSE /\ http' = <<"GET /user", "GET /rate_limit", "GET code-scanning/alerts">>
          /\ cvPc' = "dispatch"
          /\ result' = result
  /\ UNCHANGED <<op, pages, srv, live, perPage, page, buf, pageCount, gpc, gets,
                 yielded, acted, calls, lastOutcome, skips, daVars, secVars,
                 args, rxVars, socVars,
                 obsVars>>

\* security.py:745-784: the client is built, then mode (and, for dismiss, reason)
\* is looked at
CvDispatch ==
  /\ cvPc = "dispatch"
  /\ cvPc' = "done"
  /\ IF args.mode = "delete"
     THEN result' = "running" /\ gpc' = gpc
     ELSE IF args.mode = "dismiss"
     THEN IF args.reason \in ValidReasons
          THEN result' = "running" /\ gpc' = "fetch"
          ELSE result' = "ValueError" /\ gpc' = gpc
     ELSE result' = "ValueError" /\ gpc' = gpc
  /\ UNCHANGED <<op, pages, srv, live, perPage, page, buf, pageCount, gets,
                 yielded, acted, calls, lastOutcome, skips, daVars, secVars,
                 args, http, rxVars, socVars,
                 obsVars>>

\* the repository's analyses or alerts: none, or a few that the run handles
\* in its different ways
CvListings(m) ==
  IF m = "delete"
  THEN {<<>>, <<Analysis(1, "trivy_del")>>, <<Analysis(1, "trivy_del_badid")>>}
  ELSE {<<>>, <<Alert(1, "codeql_int"), Alert(2, "trivy_bad"), Alert(3, "trivy_int")>>}

InitClearVulns ==
  /\ ObsIdle
  /\ args \in [mode : Modes, reason : Reasons, token : BOOLEAN, session : BOOLEAN,
               scopes : ScopeKinds]
  /\ op = OpOfMode(args.mode)
  /\ http = <<>>
  /\ cvPc = "token"
  /\ attempt = 0
  /\ slept = <<>>
  /\ now = 0
  /\ followers = {}
  /\ following = {}
  /\ toFollow = {}
  /\ toUnfollow = {}
  /\ todo = <<>>
  /\ followed = <<>>
  /\ unfollowed = <<>>
  /\ skipped = <<>>
  /\ pages = <<>>
  /\ srv \in CvListings(args.mode)
  /\ live = TRUE
  /\ perPage = PerPageCap
  /\ page = 1
  /\ buf = <<>>
  /\ pageCount = 0
  /\ gpc = "stopped"
  /\ gets = 0
  /\ yielded = <<>>
  /\ result = "starting"
  /\ acted = 0
  /\ calls = <<>>
  /\ lastOutcome = NoOutcome
  /\ skips = 0
  /\ dryRun \in BOOLEAN
  /\ chain = <<>>
  /\ pos = 1
  /\ daPc = "idle"
  /\ target = NoUrl
  /\ reqs = <<>>
  /\ sleeps = 0
  /\ endless = FALSE
  /\ toolsFilter = {"Trivy", "Grype"}
  /\ found = <<>>
  /\ scanned = 0
  /\ srv0 = srv

NextClearVulns ==
  CvToken \/ CvSession \/ CvDispatch \/ NextDeleteAnalyses \/ NextDismiss

SpecClearVulns == InitClearVulns /\ [][NextClearVulns]_vars

(***************************************************************************)
(* sync_followers (social.py): fetch followers and following, compute the  *)
(* two candidate sets, then one follow or unfollow per candidate in sorted *)
(* order.  follow_user / unfollow_user are taken by what _request comes    *)
(* to: a 204/304 response, or an exception.                                *)
(***************************************************************************)
\* number of GitHub users; user u stands for a login, in sorting order
NumUsers == 3

Users == 1 .. NumUsers

\* an entry of the allowlist / blocklist as passed in: the login, with or without
\* blanks around it; login 0 is an entry that is empty or all blanks
ListEntry(u, pad) == [u |-> u, pad |-> pad]

\* social.py:259-260: {u.strip() for u in list if u and u.strip()}
Normalise(raw) == {e.u : e \in {x \in raw : x.u # 0}}

\* (mutant) the blocklist is not applied
ToFollowSet_NoBlock(fers, fing, block) == fers \ fing

\* social.py:266
ToFollowSet(fers, fing, block) == (fers \ fing) \ block

\* (mutant) the allowlist is not applied
ToUnfollowSet_NoAllow(fers, fing, allow) == fing \ fers

\* social.py:267
ToUnfollowSet(fers, fing, allow) == (fing \ fers) \ allow

RECURSIVE SortedSeq(_)
\* sorted(set)
SortedSeq(S) ==
  IF S = {} THEN <<>>
  ELSE LET m == CHOOSE x \in S : \A y \in S : x <= y
       IN <<m>> \o SortedSeq(S \ {m})

\* the loop iterations ahead: the follow loop, then the unfollow loop
Todo(tf, tu) ==
  [i \in 1 .. Cardinality(tf) |-> [act |-> "follow", u |-> SortedSeq(tf)[i]]]
    \o [i \in 1 .. Cardinality(tu) |-> [act |-> "unfollow", u |-> SortedSeq(tu)[i]]]

\* (mutant) the entry replaces the mapping
SetSkipped_Alone(u, why) == [x \in {u} |-> why]

\* skipped[username] = reason
SetSkipped(u, why) == [x \in DOMAIN skipped \cup {u} |-> IF x = u THEN why ELSE skipped[x]]

\* social.py:262-267: both lists fetched, the candidate sets computed
SyncFetch ==
  /\ op = "sync_followers"
  /\ result = "running"
  /\ gpc = "fetch"
  /\ gets' = gets + 2
  /\ followers' = args.followers
  /\ following' = args.following
  /\ LET tf == ToFollowSet(args.followers, args.following, Normalise(args.blocklist))
         tu == ToUnfollowSet(args.followers, args.following, Normalise(args.allowlist))
     IN /\ toFollow' = tf
        /\ toUnfollow' = tu
        /\ todo' = Todo(tf, tu)
  /\ gpc' = "yield"
  /\ UNCHANGED <<op, pages, srv, live, perPage, page, buf, pageCount, yielded, result,
                 acted, calls, lastOutcome, skips, daVars, secVars, cvVars, rxVars,
                 followed, unfollowed, skipped,
                 obsVars>>

\* what get_followers / get_following raise: AuthenticationError on 401/403,
\* GitHubAPIError when the retries are used up or the body is not an array
\* (social.py:367-371, 436-480)
FetchErrors == {"AuthenticationError", "GitHubAPIError"}

\* (mutant) an API error of a listing is caught as the errors of the loops are
FetchErrorCaught_ApiError(kind) == kind = "GitHubAPIError"

\* social.py:262-263: get_followers and get_following are called outside any try
FetchErrorCaught(kind) == FALSE

\* social.py:262-263: get_followers or get_following raises, which sync_followers
\* does not catch; when get_following raises the followers have been fetched
SyncFetchFails ==
  /\ op = "sync_followers"
  /\ result = "running"
  /\ gpc = "fetch"
  /\ \E which \in {"followers", "following"}, kind \in FetchErrors :
       LET fers == IF which = "followers" THEN {} ELSE args.followers
           fing == IF which = "following" THEN {} ELSE args.following
           tf == ToFollowSet(fers, fing, Normalise(args.blocklist))
           tu == ToUnfollowSet(fers, fing, Normalise(args.allowlist))
       IN /\ gets' = gets + (IF which = "followers" THEN 1 ELSE 2)
          /\ lastOutcome' = [kind |-> kind, status |-> 0]
          /\ IF FetchErrorCaught(kind)
             THEN /\ followers' = fers
                  /\ following' = fing
                  /\ toFollow' = tf
                  /\ toUnfollow' = tu
                  /\ todo' = Todo(tf, tu)
                  /\ gpc' = "yield"
                  /\ result' = result
             ELSE /\ followers' = fers
                  /\ gpc' = "stopped"
                  /\ result' = "error"
                  /\ UNCHANGED <<following, toFollow, toUnfollow, todo>>
  /\ UNCHANGED <<op, pages, srv, live, perPage, page, buf, pageCount, yielded,
                 acted, calls, skips, daVars, secVars, cvVars, rxVars,
                 followed, unfollowed, skipped,
                 obsVars>>

\* (mutant) the unfollow loop records the follow loop's reason
DryRunReason_Follow(act) == "dry_run_follow"

\* social.py:277, 295: the reason recorded in dry-run
DryRunReason(act) == "dry_run_" \o act

\* social.py:275-278, 293-296: dry-run: the candidate is recorded as skipped
SyncDryRun ==
  /\ op = "sync_followers"
  /\ result = "running"
  /\ gpc = "yield"
  /\ todo # <<>>
  /\ dryRun
  /\ skipped' = SetSkipped(Head(todo).u, DryRunReason(Head(todo).act))
  /\ todo' = Tail(todo)
  /\ UNCHANGED <<op, pages, srv, live, perPage, page, buf, pageCount, gpc, gets,
                 yielded, result, acted, calls, lastOutcome, skips, daVars, secVars,
                 cvVars, rxVars, followers, following, toFollow, toUnfollow,
                 followed, unfollowed,
                 obsVars>>

\* what follow_user / unfollow_user comes to (social.py:214-240 over _request):
\* True on 204/304, AuthenticationError on 401/403, GitHubAPIError otherwise
FollowOutcomes ==
  {[kind |-> "resp", status |-> 204], [kind |-> "AuthenticationError", status |-> 403],
   [kind |-> "GitHubAPIError", status |-> 500]}

\* (mutant) an API error of one user ends the sync
FollowErrorCaught_Never(o) == FALSE

\* social.py:282, 300: except GitHubAPIError (AuthenticationError is a subclass)
FollowErrorCaught(o) == o.kind \in {"GitHubAPIError", "AuthenticationError"}

\* social.py:279-289, 297-307: one follow or unfollow call, its error caught
SyncAct ==
  /\ op = "sync_followers"
  /\ result = "running"
  /\ gpc = "yield"
  /\ todo # <<>>
  /\ ~dryRun
  /\ \E o \in FollowOutcomes :
       /\ lastOutcome' = o
       /\ calls' = Append(calls, [act |-> Head(todo).act, u |-> Head(todo).u, o |-> o])
       /\ IF o.kind = "resp"
          THEN /\ followed' = IF Head(todo).act = "follow"
                              THEN Append(followed, Head(todo).u) ELSE followed
               /\ unfollowed' = IF Head(todo).act = "unfollow"
                                THEN Append(unfollowed, Head(todo).u) ELSE unfollowed
               /\ UNCHANGED <<skipped, result, gpc>>
               /\ todo' = Tail(todo)
          ELSE IF FollowErrorCaught(o)
          THEN /\ skipped' = SetSkipped(Head(todo).u, "error:" \o o.kind)
               /\ UNCHANGED <<followed, unfollowed, result, gpc>>
               /\ todo' = Tail(todo)
          ELSE /\ result' = "error"
               /\ gpc' = "stopped"
               /\ UNCHANGED <<followed, unfollowed, skipped, todo>>
  /\ UNCHANGED <<op, pages, srv, live, perPage, page, buf, pageCount, gets,
                 yielded, acted, skips, daVars, secVars, cvVars, rxVars,
                 followers, following, toFollow, toUnfollow,
                 obsVars>>

\* social.py:309-345: both loops done, the report is built and returned
SyncReturn ==
  /\ op = "sync_followers"
  /\ result = "running"
  /\ gpc = "yield"
  /\ todo = <<>>
  /\ gpc' = "stopped"
  /\ result' = "ok"
  /\ UNCHANGED <<op, pages, srv, live, perPage, page, buf, pageCount, gets,
                 yielded, acted, calls, lastOutcome, skips, daVars, secVars, cvVars,
                 rxVars, socVars,
                 obsVars>>

\* a list as passed in: every entry plain, or (padded) every entry with blanks
\* around it and an empty entry among them
RawList(S, padded) ==
  IF padded THEN {ListEntry(u, TRUE) : u \in S} \cup {ListEntry(0, TRUE)}
  ELSE {ListEntry(u, FALSE) : u \in S}

InitSync ==
  /\ ObsIdle
  /\ op = "sync_followers"
  /\ \E fers \in SUBSET Users, fing \in SUBSET Users, allow \in SUBSET Users,
        block \in SUBSET Users, padded \in BOOLEAN :
       args = [followers |-> fers, following |-> fing,
               allowlist |-> RawList(allow, padded),
               blocklist |-> RawList(block, padded)]
  /\ dryRun \in BOOLEAN
  /\ http = <<>>
  /\ cvPc = "none"
  /\ attempt = 0
  /\ slept = <<>>
  /\ now = 0
  /\ followers = {}
  /\ following = {}
  /\ toFollow = {}
  /\ toUnfollow = {}
  /\ todo = <<>>
  /\ followed = <<>>
  /\ unfollowed = <<>>
  /\ skipped = <<>>
  /\ pages = <<>>
  /\ srv = <<>>
  /\ live = FALSE
  /\ perPage = PerPageCap
  /\ page = 1
  /\ buf = <<>>
  /\ pageCount = 0
  /\ gpc = "fetch"
  /\ gets = 0
  /\ yielded = <<>>
  /\ result = "running"
  /\ acted = 0
  /\ calls = <<>>
  /\ lastOutcome = NoOutcome
  /\ skips = 0
  /\ chain = <<>>
  /\ pos = 1
  /\ daPc = "idle"
  /\ target = NoUrl
  /\ reqs = <<>>
  /\ sleeps = 0
  /\ endless = FALSE
  /\ SecIdle

NextSync == SyncFetch \/ SyncFetchFails \/ SyncDryRun \/ SyncAct \/ SyncReturn

SpecSync == InitSync /\ [][NextSync]_vars

(***************************************************************************)
(* The request executors: request (utils/http_client.py), _request of      *)
(* GitHubSocialService (social.py) and _request of GitHubSecurityClient    *)
(* (security.py).  One call; each attempt receives what the server or the  *)
(* network answers, chain keeps the answers received so far.               *)
(***************************************************************************)
\* http_client.py:60, social.py:66
MaxRetries == 5

\* http_client.py:59, social.py:65
RetryableStatus == {429, 500, 502, 503, 504}

\* security.py:200, 202: the wait when a 403 "rate limit" tells no usable reset
FallbackWait == 30

\* int(time.time()) when the call starts
StartTime == 100

\* a response: status, the X-RateLimit-Remaining and X-RateLimit-Reset headers
\* (absent, or the text of an integer, or another text), whether the body holds
\* the words "rate limit"
HResp(st, rem, reset, rlText) ==
  [kind |-> "resp", status |-> st, rem |-> rem, reset |-> reset, rlText |-> rlText]

\* requests.RequestException out of session.request
NetExc == [kind |-> "exc", status |-> 0, rem |-> NoNum, reset |-> NoNum, rlText |-> FALSE]

RxOutcomes ==
  { HResp(200, NoNum, NoNum, FALSE),
    HResp(204, NoNum, NoNum, FALSE),
    HResp(200, StrNum(5), StrNum(StartTime + 5), FALSE),
    HResp(200, StrNum(0), StrNum(StartTime + 5), FALSE),
    HResp(200, StrNum(0), StrNum(StartTime - 3), FALSE),
    HResp(200, BadNum, StrNum(StartTime + 5), FALSE),
    HResp(200, StrNum(0), NoNum, FALSE),
    HResp(401, NoNum, NoNum, FALSE),
    HResp(403, NoNum, NoNum, FALSE),
    HResp(403, StrNum(0), StrNum(StartTime + 5), TRUE),
    HResp(403, StrNum(5), StrNum(StartTime + 5), TRUE),
    HResp(403, NoNum, NoNum, TRUE),
    HResp(404, NoNum, NoNum, FALSE),
    HResp(429, NoNum, NoNum, FALSE),
    HResp(429, StrNum(0), StrNum(StartTime + 5), FALSE),
    HResp(500, NoNum, NoNum, FALSE),
    NetExc }

\* (mutant) the wait ends at the reset, not one second after it
RateWait_NoMargin(o, t) ==
  IF ParseInt(o.rem).ok /\ ParseInt(o.reset).ok /\ ParseInt(o.rem).val <= 0
  THEN Max(0, ParseInt(o.reset).val - t)
  ELSE 0

\* http_client.py:345-366, social.py:482-503, security.py:173-183: the seconds to
\* sleep for a response received at time t; 0: no sleep
RateWait(o, t) ==
  IF ParseInt(o.rem).ok /\ ParseInt(o.reset).ok /\ ParseInt(o.rem).val <= 0
  THEN Max(0, ParseInt(o.reset).val - t) + 1
  ELSE 0

\* security.py:170-203: the same, then the fallback for a 403 whose body holds
\* "rate limit"
SecWait(o, t) ==
  IF RateWait(o, t) > 0 THEN RateWait(o, t)
  ELSE IF o.status = 403 /\ o.rlText
  THEN IF o.reset # NoNum /\ ParseInt(o.reset).ok
       THEN Max(0, ParseInt(o.reset).val - t) + 1
       ELSE FallbackWait
  ELSE 0

\* (mutant) no retry at all
CanRetry_Never(a) == FALSE

\* http_client.py:224, 255, social.py:441, 460: attempt <= MAX_RETRIES
CanRetry(a) == a <= MaxRetries

\* (mutant) only 401 is an authentication failure
IsAuthFailure_Only401(st) == st = 401

\* social.py:435: status_code in (401, 403)
IsAuthFailure(st) == st \in {401, 403}

\* whole seconds that the backoff sleep before retry a lasts
\* (http_client.py:373, social.py:508-509: min(30, 0.5 * 2^(a-1)))
BackoffSecs(a) == Min(30, (2 ^ (a - 1)) \div 2)

RateSleep(a, w, t) == [kind |-> "rate", at |-> a, secs |-> w, now |-> t]
BackoffSleep(a) == [kind |-> "backoff", at |-> a, secs |-> BackoffSecs(a), now |-> 0]

\* the sleeps so far, with the rate-limit wait w (if any) of attempt a
WithRate(a, w) == IF w > 0 THEN Append(slept, RateSleep(a, w, now)) ELSE slept

RxReturn(o, how) == result' = how /\ lastOutcome' = o
RxGoOn == UNCHANGED <<result, lastOutcome>>

\* http_client.py:204-272: one turn of the loop of request
HcAttempt ==
  /\ op = "request"
  /\ args.exec = "http_client"
  /\ result = "running"
  /\ attempt' = attempt + 1
  /\ \E o \in RxOutcomes :
       /\ chain' = Append(chain, o)
       /\ IF o.kind = "exc"
          THEN IF CanRetry(attempt')
               THEN /\ slept' = Append(slept, BackoffSleep(attempt'))
                    /\ now' = now + BackoffSecs(attempt')
                    /\ RxGoOn
               ELSE /\ RxReturn(o, "RequestException")
                    /\ UNCHANGED <<slept, now>>
          ELSE LET w == RateWait(o, now)
               IN IF o.status \in args.expected
                  THEN /\ slept' = WithRate(attempt', w)
                       /\ now' = now + w
                       /\ RxReturn(o, "returned")
                  ELSE IF o.status \in RetryableStatus /\ CanRetry(attempt')
                  THEN /\ slept' = Append(WithRate(attempt', w), BackoffSleep(attempt'))
                       /\ now' = now + w + BackoffSecs(attempt')
                       /\ RxGoOn
                  ELSE /\ slept' = WithRate(attempt', w)
                       /\ now' = now + w
                       /\ RxReturn(o, "returned")
  /\ UNCHANGED <<op, pages, srv, live, perPage, page, buf, pageCount, gpc, gets,
                 yielded, acted, calls, skips, dryRun, pos, daPc, target, reqs,
                 sleeps, endless, secVars, cvVars, socVars,
                 obsVars>>

\* social.py:415-480: one turn of the loop of _request
SocAttempt ==
  /\ op = "request"
  /\ args.exec = "social"
  /\ result = "running"
  /\ attempt' = attempt + 1
  /\ \E o \in RxOutcomes :
       /\ chain' = Append(chain, o)
       /\ IF o.kind = "exc"
          THEN IF CanRetry(attempt')
               THEN /\ slept' = Append(slept, BackoffSleep(attempt'))
                    /\ now' = now + BackoffSecs(attempt')
                    /\ RxGoOn
               ELSE /\ RxReturn(o, "GitHubAPIError")
                    /\ UNCHANGED <<slept, now>>
          ELSE LET w == RateWait(o, now)
               IN IF o.status \in args.expected
                  THEN /\ slept' = WithRate(attempt', w)
                       /\ now' = now + w
                       /\ RxReturn(o, "returned")
                  ELSE IF IsAuthFailure(o.status)
                  THEN /\ slept' = WithRate(attempt', w)
                       /\ now' = now + w
                       /\ RxReturn(o, "AuthenticationError")
                  ELSE IF o.status \in RetryableStatus /\ CanRetry(attempt')
                  THEN /\ slept' = Append(WithRate(attempt', w), BackoffSleep(attempt'))
                       /\ now' = now + w + BackoffSecs(attempt')
                       /\ RxGoOn
                  ELSE /\ slept' = WithRate(attempt', w)
                       /\ now' = now + w
                       /\ RxReturn(o, "GitHubAPIError")
  /\ UNCHANGED <<op, pages, srv, live, perPage, page, buf, pageCount, gpc, gets,
                 yielded, acted, calls, skips, dryRun, pos, daPc, target, reqs,
                 sleeps, endless, secVars, cvVars, socVars,
                 obsVars>>

\* security.py:148-203: _request: the request, and the wait when the response
\* says the rate limit is exhausted
SecSend ==
  /\ op = "request"
  /\ args.exec = "security"
  /\ result = "running"
  /\ attempt = 0
  /\ attempt' = 1
  /\ \E o \in RxOutcomes :
       /\ chain' = Append(chain, o)
       /\ IF o.kind = "exc"
          THEN /\ RxReturn(o, "RequestException")
               /\ UNCHANGED <<slept, now>>
          ELSE LET w == SecWait(o, now)
               IN IF w > 0
                  THEN /\ slept' = WithRate(1, w)
                       /\ now' = now + w
                       /\ RxGoOn
                  ELSE /\ RxReturn(o, "returned")
                       /\ UNCHANGED <<slept, now>>
  /\ UNCHANGED <<op, pages, srv, live, perPage, page, buf, pageCount, gpc, gets,
                 yielded, acted, calls, skips, dryRun, pos, daPc, target, reqs,
                 sleeps, endless, secVars, cvVars, socVars,
                 obsVars>>

\* security.py:204-207: after the wait, the request once more; its response is
\* returned as it is
SecRetry ==
  /\ op = "request"
  /\ args.exec = "security"
  /\ result = "running"
  /\ attempt = 1
  /\ attempt' = 2
  /\ \E o \in RxOutcomes :
       /\ chain' = Append(chain, o)
       /\ RxReturn(o, IF o.kind = "exc" THEN "RequestException" ELSE "returned")
  /\ UNCHANGED <<op, pages, srv, live, perPage, page, buf, pageCount, gpc, gets,
                 yielded, acted, calls, skips, dryRun, pos, daPc, target, reqs,
                 sleeps, endless, secVars, cvVars, socVars, slept, now,
                 obsVars>>

\* the executor called and the statuses its caller expects: request's default,
\* _paginate's {200}, follow_user's {204, 304}; security's _request has none
RxCalls ==
  { [mode |-> "", exec |-> "http_client", expected |-> {200, 201, 202, 204}],
    [mode |-> "", exec |-> "social", expected |-> {200}],
    [mode |-> "", exec |-> "social", expected |-> {204, 304}],
    [mode |-> "", exec |-> "security", expected |-> {}] }

InitRequest ==
  /\ ObsIdle
  /\ op = "request"
  /\ args \in RxCalls
  /\ http = <<>>
  /\ cvPc = "none"
  /\ attempt = 0
  /\ slept = <<>>
  /\ now = StartTime
  /\ followers = {}
  /\ following = {}
  /\ toFollow = {}
  /\ toUnfollow = {}
  /\ todo = <<>>
  /\ followed = <<>>
  /\ unfollowed = <<>>
  /\ skipped = <<>>
  /\ pages = <<>>
  /\ srv = <<>>
  /\ live = FALSE
  /\ perPage = PerPageCap
  /\ page = 1
  /\ buf = <<>>
  /\ pageCount = 0
  /\ gpc = "stopped"
  /\ gets = 0
  /\ yielded = <<>>
  /\ result = "running"
  /\ acted = 0
  /\ calls = <<>>
  /\ lastOutcome = NoOutcome
  /\ skips = 0
  /\ DaIdle
  /\ SecIdle

NextRequest == HcAttempt \/ SocAttempt \/ SecSend \/ SecRetry

SpecRequest == InitRequest /\ [][NextRequest]_vars

\* a call is a single thread that always takes its next step
FairSpecRequest == SpecRequest /\ WF_vars(NextRequest)

(***************************************************************************)
(* The page size on its way to the per_page parameter: paginate (api.py),  *)
(* the social-sync settings (utils/config.py) and the constructor of       *)
(* GitHubSocialService (social.py).  As everywhere in the model,           *)
(* PerPageCap stands for GitHub's ceiling of 100.                          *)
(***************************************************************************)
\* the value of the SYNC_PAGE_SIZE variable: unset, blank, a text that is no
\* integer, or the decimal text of v, with or without blanks around it
EnvUnset == [k |-> "unset", v |-> 0, pad |-> FALSE]
EnvBlank == [k |-> "blank", v |-> 0, pad |-> FALSE]
EnvJunk == [k |-> "junk", v |-> 0, pad |-> FALSE]
EnvNum(n, pad) == [k |-> "num", v |-> n, pad |-> pad]

EnvValues ==
  {EnvUnset, EnvBlank, EnvJunk}
    \cup {EnvNum(n, pad) : n \in -1 .. PerPageCap + 1, pad \in BOOLEAN}

\* (mutant) _parse_int without the range test
ParseIntEnv_NoRange(value, default, lo, hi) ==
  IF value.k = "num" THEN value.v ELSE default

\* config.py:77-98: _parse_int(value, default=, min_value=, max_value=)
ParseIntEnv(value, default, lo, hi) ==
  IF value.k \in {"unset", "blank"} THEN default
  ELSE IF value.k # "num" THEN default
  ELSE IF value.v < lo THEN default
  ELSE IF value.v > hi THEN default
  ELSE value.v

\* the page_size argument (--page-size): not given, or an integer
PageSizeArgs == {NoNum} \cup {IntNum(n) : n \in -1 .. PerPageCap + 1}

\* config.py:410-420: env_page_size
EnvPageSize(override, env) ==
  IF override # NoNum THEN override.v ELSE ParseIntEnv(env, PerPageCap, 1, PerPageCap)

\* config.py:326: the test of SocialSyncSettings.__post_init__
SettingsAccept(ps) == 1 <= ps /\ ps <= PerPageCap

\* social.py:152: max(1, min(page_size, 100))
ServicePageSize(ps) == Max(1, Min(ps, PerPageCap))

\* api.py:87-97: paginate sends its first GET with the per_page it has worked out
PsPaginate ==
  /\ op = "page_size"
  /\ cvPc = "paginate"
  /\ perPage' = PerPageVal(args.raw)
  /\ gets' = gets + 1
  /\ cvPc' = "done"
  /\ result' = "ok"
  /\ UNCHANGED <<op, pages, srv, live, page, buf, pageCount, gpc, yielded, acted,
                 calls, lastOutcome, skips, daVars, secVars, args, http, rxVars,
                 socVars,
                 obsVars>>

\* config.py:410-463: get_social_sync_settings: the page size from the argument
\* or the environment, then the settings object, which refuses what is out of
\* range
PsSettings ==
  /\ op = "page_size"
  /\ cvPc = "settings"
  /\ LET ps == EnvPageSize(args.override, args.env)
     IN IF SettingsAccept(ps)
        THEN perPage' = ps /\ cvPc' = "service" /\ result' = result
        ELSE perPage' = perPage /\ cvPc' = "done" /\ result' = "ValueError"
  /\ UNCHANGED <<op, pages, srv, live, page, buf, pageCount, gpc, gets, yielded,
                 acted, calls, lastOutcome, skips, daVars, secVars, args, http,
                 rxVars, socVars,
                 obsVars>>

\* social.py:152, 183-188, 358-367: GitHubSocialService(page_size=...), whose
\* _paginate sends per_page = _page_size
PsService ==
  /\ op = "page_size"
  /\ cvPc = "service"
  /\ perPage' = ServicePageSize(perPage)
  /\ gets' = gets + 1
  /\ cvPc' = "done"
  /\ result' = "ok"
  /\ UNCHANGED <<op, pages, srv, live, page, buf, pageCount, gpc, yielded, acted,
                 calls, lastOutcome, skips, daVars, secVars, args, http, rxVars,
                 socVars,
                 obsVars>>

\* the three ways in: paginate with the caller's params, the settings with
\* argument and environment, the service built with an integer of the caller's
PageSizeCalls ==
  {[mode |-> "", path |-> "paginate", raw |-> r, override |-> NoNum, env |-> EnvUnset]
     : r \in RawPerPage}
    \cup {[mode |-> "", path |-> "settings", raw |-> [k |-> "absent", v |-> 0],
           override |-> o, env |-> e] : o \in PageSizeArgs, e \in EnvValues}
    \cup {[mode |-> "", path |-> "service", raw |-> [k |-> "absent", v |-> 0],
           override |-> o, env |-> EnvUnset] : o \in PageSizeArgs \ {NoNum}}

InitPageSize ==
  /\ ObsIdle
  /\ op = "page_size"
  /\ args \in PageSizeCalls
  /\ cvPc = args.path
  /\ perPage = IF args.path = "service" THEN args.override.v ELSE PerPageCap
  /\ http = <<>>
  /\ attempt = 0
  /\ slept = <<>>
  /\ now = 0
  /\ followers = {}
  /\ following = {}
  /\ toFollow = {}
  /\ toUnfollow = {}
  /\ todo = <<>>
  /\ followed = <<>>
  /\ unfollowed = <<>>
  /\ skipped = <<>>
  /\ pages = <<>>
  /\ srv = <<>>
  /\ live = FALSE
  /\ page = 1
  /\ buf = <<>>
  /\ pageCount = 0
  /\ gpc = "stopped"
  /\ gets = 0
  /\ yielded = <<>>
  /\ result = "running"
  /\ acted = 0
  /\ calls = <<>>
  /\ lastOutcome = NoOutcome
  /\ skips = 0
  /\ DaIdle
  /\ SecIdle

NextPageSize == PsPaginate \/ PsSettings \/ PsService

SpecPageSize == InitPageSize /\ [][NextPageSize]_vars

(***************************************************************************)
(* The code-scanning client as a whole: a clear_vulns run, a run of one of *)
(* the two bulk operations on a client built by the caller, or a single    *)
(* delete_analysis call.                                                   *)
(***************************************************************************)
InitSecurity ==
  InitClearVulns \/ InitDeleteAnalyses \/ InitDismiss \/ InitDeleteAnalysis

NextSecurity == NextClearVulns \/ NextDeleteAnalysis

SpecSecurity == InitSecurity /\ [][NextSecurity]_vars

(***************************************************************************)
(* utils/structured_logging.py: log_event and the redaction of sensitive   *)
(* fields.  A string is a sequence of character codes; a mapping is a      *)
(* function from its keys to values, a value being a string or a mapping.  *)
(* What is kept of a serialised message or line is the set of strings it   *)
(* holds.                                                                  *)
(***************************************************************************)
\* deepest nesting of mappings in a payload
MaxDepth == 1

Str(s) == [t |-> "str", s |-> s]
Map(m) == [t |-> "map", m |-> m]

\* the character '*'
Star == 0

\* values: a short and a long secret, and a value that is no secret
ShortSecret == <<1, 2, 3, 4, 5>>
LongSecret == <<1, 2, 3, 4, 5, 6, 7, 8, 9, 10, 11, 12>>
PlainText == <<21, 22>>

\* structured_logging.py:215-228: _SENSITIVE_KEYS
SensitiveKeys ==
  { "token", "github_token", "gh_token", "authorization", "password", "secret",
    "api_key", "apikey", "access_key", "private_key", "client_secret",
    "refresh_token" }

\* str.lower on the keys that occur
Lower(k) ==
  CASE k = "Token" -> "token"
    [] k = "Authorization" -> "authorization"
    [] OTHER -> k

\* structured_logging.py:248: if k.lower() in _SENSITIVE_KEYS
IsSensitive(k) == Lower(k) \in SensitiveKeys

\* structured_logging.py:231-242: _redact_value on str(v): "" stays, up to 8
\* characters become "***", longer strings keep their first and last 4
RedactValue(s) ==
  IF s = <<>> THEN s
  ELSE IF Len(s) <= 8 THEN <<Star, Star, Star>>
  ELSE SubSeq(s, 1, 4) \o <<Star, Star, Star>> \o SubSeq(s, Len(s) - 3, Len(s))

\* structured_logging.py:245-258: _redact_payload: one loop over the items of the
\* payload; a value under a key that is not sensitive is kept as it is
RedactPayload(p) ==
  [k \in DOMAIN p |->
     IF IsSensitive(k) THEN Str(RedactValue(p[k].s)) ELSE p[k]]

\* the strings json.dumps writes for the values of a mapping, at any depth
RECURSIVE Leaves(_)
Leaves(p) ==
  UNION { IF p[k].t = "map" THEN Leaves(p[k].m) ELSE {p[k].s} : k \in DOMAIN p }

\* the keys of the payloads: sensitive ones hold a secret, the others hold plain
\* text, and params holds a mapping (as in paginate's paginate_request event)
ScalarKeys == {"token", "Authorization", "page"}

ValuesFor(k) ==
  IF IsSensitive(k) THEN {Str(ShortSecret), Str(LongSecret)} ELSE {Str(PlainText)}

FlatMaps ==
  UNION { { f \in [K -> {Str(ShortSecret), Str(LongSecret), Str(PlainText)}] :
              \A k \in K : f[k] \in ValuesFor(k) } : K \in SUBSET ScalarKeys }

RECURSIVE Payloads(_)
Payloads(d) ==
  IF d = 0 THEN FlatMaps
  ELSE FlatMaps \cup
       { f @@ ("params" :> Map(g)) : f \in FlatMaps, g \in Payloads(d - 1) }

\* structured_logging.py:159-167: set_context(key, value)
SetContext ==
  /\ op = "log_event"
  /\ logPc = "idle"
  /\ \E k \in {"repo", "token"} :
       \E v \in ValuesFor(k) : mdc' = (k :> v) @@ mdc
  /\ logPc' = "context"
  /\ UNCHANGED <<op, pages, srv, live, perPage, page, buf, pageCount, gpc, gets,
                 yielded, result, acted, calls, lastOutcome, skips, daVars, secVars,
                 cvVars, rxVars, socVars, extVars, wire, payload, message, line>>

\* structured_logging.py:412-438: log_event: the entry is ts, event, request_id
\* and the redacted payload, serialised and handed to the logger
LogEvent ==
  /\ op = "log_event"
  /\ logPc \in {"idle", "context"}
  /\ message' = Leaves(RedactPayload(payload))
  /\ logPc' = "logged"
  /\ UNCHANGED <<op, pages, srv, live, perPage, page, buf, pageCount, gpc, gets,
                 yielded, result, acted, calls, lastOutcome, skips, daVars, secVars,
                 cvVars, rxVars, socVars, extVars, wire, payload, mdc, line>>

\* structured_logging.py:269-334: _JsonLogFormatter.format: the message and the
\* redacted MDC go into the line
LogFormat ==
  /\ op = "log_event"
  /\ logPc = "logged"
  /\ line' = message \cup Leaves(RedactPayload(mdc))
  /\ logPc' = "emitted"
  /\ result' = "ok"
  /\ UNCHANGED <<op, pages, srv, live, perPage, page, buf, pageCount, gpc, gets,
                 yielded, acted, calls, lastOutcome, skips, daVars, secVars,
                 cvVars, rxVars, socVars, extVars, wire, payload, mdc, message>>

InitLog ==
  /\ ExtIdle
  /\ op = "log_event"
  /\ payload \in Payloads(MaxDepth)
  /\ mdc = EmptyMap
  /\ message = {}
  /\ line = {}
  /\ logPc = "idle"
  /\ wire = {}
  /\ args = NoArgs
  /\ http = <<>>
  /\ cvPc = "none"
  /\ attempt = 0
  /\ slept = <<>>
  /\ now = 0
  /\ followers = {}
  /\ following = {}
  /\ toFollow = {}
  /\ toUnfollow = {}
  /\ todo = <<>>
  /\ followed = <<>>
  /\ unfollowed = <<>>
  /\ skipped = <<>>
  /\ pages = <<>>
  /\ srv = <<>>
  /\ live = FALSE
  /\ perPage = PerPageCap
  /\ page = 1
  /\ buf = <<>>
  /\ pageCount = 0
  /\ gpc = "stopped"
  /\ gets = 0
  /\ yielded = <<>>
  /\ result = "running"
  /\ acted = 0
  /\ calls = <<>>
  /\ lastOutcome = NoOutcome
  /\ skips = 0
  /\ DaIdle
  /\ SecIdle

NextLog == SetContext \/ LogEvent \/ LogFormat

SpecLog == InitLog /\ [][NextLog]_vars

(***************************************************************************)
(* paginate (api.py:116-180): the records of one page's body.  A mapping   *)
(* body is the sequence of its (key, value) entries in the order of the    *)
(* JSON document (a Python dict keeps it); a value is an array of elements *)
(* or something else.                                                      *)
(***************************************************************************)
\* most entries of a mapping body
MaxKeys == 3

\* the keys a mapping body may hold
BodyKeys == {"workflow_runs", "caches", "items", "total_count"}

\* the values a mapping may hold under its i-th key: a scalar, or an array
Values(i) ==
  {[list |-> FALSE, elems |-> <<>>]}
    \cup {[list |-> TRUE, elems |-> e] : e \in {<<>>, <<Rec(i)>>, <<NonDict, Rec(i)>>}}

\* the sequences of n distinct keys
KeySeqs(n) == {ks \in [1 .. n -> BodyKeys] : \A i, j \in 1 .. n : ks[i] = ks[j] => i = j}

\* the mapping bodies with n entries
DictBodies(n) ==
  {[shape |-> "dict", entries |-> [i \in 1 .. n |-> [key |-> ks[i], val |-> vs[i]]]] :
     ks \in KeySeqs(n), vs \in {f \in [1 .. n -> UNION {Values(i) : i \in 1 .. n}] :
                                  \A i \in 1 .. n : f[i] \in Values(i)}}

\* the bodies: an array, a mapping, or any other JSON value
Bodies ==
  {[shape |-> "list", entries |-> <<[key |-> "", val |-> v]>>] :
     v \in {w \in Values(1) : w.list}}
    \cup UNION {DictBodies(n) : n \in 0 .. MaxKeys}
    \cup {[shape |-> "other", entries |-> <<>>]}

\* the position of key k in the entries, 0 when k is not in the mapping
KeyIndex(entries, k) ==
  IF \E i \in 1 .. Len(entries) : entries[i].key = k
  THEN CHOOSE i \in 1 .. Len(entries) : entries[i].key = k
  ELSE 0

\* api.py:146-152: the position of the first value that is a list, 0 when none is
FirstListIndex(entries) ==
  IF \E i \in 1 .. Len(entries) : entries[i].val.list
  THEN CHOOSE i \in 1 .. Len(entries) :
         /\ entries[i].val.list
         /\ \A j \in 1 .. i - 1 : ~entries[j].val.list
  ELSE 0

\* api.py:131-135 with the fallback of every key: the wrappers are looked at whatever array_key is
WrapperKey_Always(key, entries) ==
  IF key # None /\ KeyIndex(entries, key) # 0 /\ entries[KeyIndex(entries, key)].val.list
  THEN key
  ELSE IF KeyIndex(entries, "workflow_runs") # 0 THEN "workflow_runs"
  ELSE IF KeyIndex(entries, "caches") # 0 THEN "caches"
  ELSE key

\* api.py:128-135: key, after the fallback on the well-known wrappers
WrapperKey(key, entries) ==
  IF key # None THEN key
  ELSE IF KeyIndex(entries, "workflow_runs") # 0 THEN "workflow_runs"
  ELSE IF KeyIndex(entries, "caches") # 0 THEN "caches"
  ELSE None

\* api.py:137: key is not None and key in data_dict and isinstance(data_dict[key], list)
KeyHoldsList(key, entries) ==
  /\ key # None
  /\ KeyIndex(entries, key) # 0
  /\ entries[KeyIndex(entries, key)].val.list

\* api.py:116-180: what the body gives: the page's items, or the error raised
ExtractItems(data, array_key) ==
  IF data.shape = "list"
  THEN [ok |-> TRUE, items |-> OnlyDicts(data.entries[1].val.elems), keys |-> <<>>]
  ELSE IF data.shape = "dict"
  THEN LET key == WrapperKey(array_key, data.entries)
           first == FirstListIndex(data.entries)
       IN IF KeyHoldsList(key, data.entries)
          THEN [ok |-> TRUE,
                items |-> OnlyDicts(data.entries[KeyIndex(data.entries, key)].val.elems),
                keys |-> <<>>]
          ELSE IF first # 0
          THEN [ok |-> TRUE, items |-> OnlyDicts(data.entries[first].val.elems),
                keys |-> <<>>]
          ELSE [ok |-> FALSE, items |-> <<>>,
                keys |-> [i \in 1 .. Len(data.entries) |-> data.entries[i].key]]
  ELSE [ok |-> FALSE, items |-> <<>>, keys |-> <<>>]

\* paginate: the body of the GET is examined; the items found end the listing
\* when there is none (api.py:183-185), else they are about to be yielded
PaginateBody ==
  /\ op = "paginate_body"
  /\ result = "running"
  /\ gpc = "fetch"
  /\ gets' = gets + 1
  /\ LET got == ExtractItems(body, arrayKey)
     IN IF ~got.ok
        THEN /\ result' = "error"
             /\ errKeys' = got.keys
             /\ UNCHANGED <<gpc, buf, pageCount>>
        ELSE /\ errKeys' = errKeys
             /\ buf' = got.items
             /\ pageCount' = Len(got.items)
             /\ IF got.items = <<>>
                THEN gpc' = "stopped" /\ result' = "ok"
                ELSE gpc' = "yield" /\ result' = result
  /\ UNCHANGED <<op, pages, srv, live, perPage, page, yielded, acted, calls,
                 lastOutcome, skips, daVars, secVars, cvVars, rxVars, socVars,
                 wire, logVars, body, arrayKey, operations>>

InitBody ==
  /\ op = "paginate_body"
  /\ body \in Bodies
  /\ arrayKey \in {None} \cup BodyKeys
  /\ errKeys = <<>>
  /\ operations = {}
  /\ wire = {}
  /\ payload = EmptyMap
  /\ mdc = EmptyMap
  /\ message = {}
  /\ line = {}
  /\ logPc = "idle"
  /\ args = NoArgs
  /\ http = <<>>
  /\ cvPc = "none"
  /\ attempt = 0
  /\ slept = <<>>
  /\ now = 0
  /\ followers = {}
  /\ following = {}
  /\ toFollow = {}
  /\ toUnfollow = {}
  /\ todo = <<>>
  /\ followed = <<>>
  /\ unfollowed = <<>>
  /\ skipped = <<>>
  /\ pages = <<>>
  /\ srv = <<>>
  /\ live = FALSE
  /\ perPage = PerPageCap
  /\ page = 1
  /\ buf = <<>>
  /\ pageCount = 0
  /\ gpc = "fetch"
  /\ gets = 0
  /\ yielded = <<>>
  /\ result = "running"
  /\ acted = 0
  /\ calls = <<>>
  /\ lastOutcome = NoOutcome
  /\ skips = 0
  /\ DaIdle
  /\ SecIdle

NextBody == PaginateBody

SpecBody == InitBody /\ [][NextBody]_vars

(***************************************************************************)
(* _backoff_seconds (http_client.py:369-377, social.py:505-515), in        *)
(* microseconds; the fractional part of time.time() in milliseconds.       *)
(***************************************************************************)
\* http_client.py:61, social.py:68: BACKOFF_BASE_SECONDS = 0.5
BackoffBaseMicros == 500000

\* http_client.py:62, social.py:69: BACKOFF_MAX_SECONDS = 30.0
BackoffMaxMicros == 30000000

\* the fractional parts of time.time() looked at, in milliseconds (0 <= frac < 1)
Fractions == {0, 1, 250, 500, 750, 999}

\* http_client.py:373, social.py:508-509: base
BackoffBase(a) == Min(BackoffMaxMicros, BackoffBaseMicros * (2 ^ Max(0, a - 1)))

\* (mutant) a jitter as large as the base
Jitter_Full(base) == base

\* http_client.py:374, social.py:510: jitter = base * 0.1
Jitter(base) == base \div 10

\* http_client.py:375-376, social.py:512-513: jitter * (2.0 * fraction - 1.0)
JitterTerm(base, frac) == (Jitter(base) * (2 * frac - 1000)) \div 1000

\* http_client.py:377, social.py:514-515: max(0.0, base + jitter_term)
BackoffSeconds(a, frac) == Max(0, BackoffBase(a) + JitterTerm(BackoffBase(a), frac))

\* http_client.py:224-228, 255-258, social.py:444-448, 464-467: an attempt failed in
\* a way that is retried: while attempt <= MAX_RETRIES the executor sleeps
\* _backoff_seconds(attempt), after that it gives up
BackoffRetry ==
  /\ op = "backoff"
  /\ result = "running"
  /\ attempt' = attempt + 1
  /\ IF CanRetry(attempt')
     THEN /\ \E frac \in Fractions :
               slept' = Append(slept, [kind |-> "backoff", at |-> attempt',
                                       secs |-> BackoffSeconds(attempt', frac),
                                       now |-> frac])
          /\ result' = result
     ELSE /\ slept' = slept
          /\ result' = "error"
  /\ UNCHANGED <<op, pages, srv, live, perPage, page, buf, pageCount, gpc, gets,
                 yielded, acted, calls, lastOutcome, skips, daVars, secVars, cvVars,
                 now, socVars, obsVars>>

InitBackoff ==
  /\ ObsIdle
  /\ op = "backoff"
  /\ args = NoArgs
  /\ http = <<>>
  /\ cvPc = "none"
  /\ attempt = 0
  /\ slept = <<>>
  /\ now = 0
  /\ followers = {}
  /\ following = {}
  /\ toFollow = {}
  /\ toUnfollow = {}
  /\ todo = <<>>
  /\ followed = <<>>
  /\ unfollowed = <<>>
  /\ skipped = <<>>
  /\ pages = <<>>
  /\ srv = <<>>
  /\ live = FALSE
  /\ perPage = PerPageCap
  /\ page = 1
  /\ buf = <<>>
  /\ pageCount = 0
  /\ gpc = "stopped"
  /\ gets = 0
  /\ yielded = <<>>
  /\ result = "running"
  /\ acted = 0
  /\ calls = <<>>
  /\ lastOutcome = NoOutcome
  /\ skips = 0
  /\ DaIdle
  /\ SecIdle

NextBackoff == BackoffRetry

SpecBackoff == InitBackoff /\ [][NextBackoff]_vars

(***************************************************************************)
(* GitHubSocialService._paginate (social.py:350-398).  The server holds a  *)
(* finite listing: pages[k] is the array and the Link header of page k;    *)
(* a page past the last one is an empty array without Link header.         *)
(***************************************************************************)
\* the Link headers: the rel values the header advertises (none: no header)
Links == {{}, {"next", "last"}, {"prev", "first"}}

\* the arrays of page k: up to pp mappings, or a full page whose first element is
\* not a mapping
PageArrays(k, pp) ==
  {[i \in 1 .. n |-> Rec((k - 1) * PerPageCap + i)] : n \in 0 .. pp}
    \cup {[i \in 1 .. pp |-> IF i = 1 THEN NonDict ELSE Rec((k - 1) * PerPageCap + i)]}

RECURSIVE ListingsOf(_, _)
\* the listings of n pages
ListingsOf(n, pp) ==
  IF n = 0 THEN {<<>>}
  ELSE {Append(l, [elems |-> e, link |-> h]) :
          l \in ListingsOf(n - 1, pp), e \in PageArrays(n, pp), h \in Links}

\* the finite listings of at most MaxPages pages
Listings(pp) == UNION {ListingsOf(n, pp) : n \in 0 .. MaxPages}

\* what the server answers to GET ...?page=k
SocServedPage(k) ==
  IF k <= Len(pages) THEN pages[k] ELSE [elems |-> <<>>, link |-> {}]

\* social.py:528-541: _has_link_next: a part of the header holds rel="next"
HasLinkNext(link) == "next" \in link

\* (mutant) the loop goes on only when a next page is advertised
MorePages_LinkOnly(count, hasNext, pp) == hasNext

\* social.py:389-396: the loop goes on unless the batch is short and no next page
\* is advertised
MorePages(count, hasNext, pp) == ~(count < pp /\ ~hasNext)

\* social.py:362-396: one turn of the loop: the page is requested, its mappings
\* are appended to items, and the loop ends or page is incremented
SocPaginateGet ==
  /\ op = "social_paginate"
  /\ result = "running"
  /\ gets' = gets + 1
  /\ LET resp == SocServedPage(page)
         typed_batch == OnlyDicts(resp.elems)
     IN /\ yielded' = yielded \o typed_batch
        /\ pageCount' = Len(typed_batch)
        /\ IF MorePages(Len(typed_batch), HasLinkNext(resp.link), perPage)
           THEN page' = page + 1 /\ UNCHANGED <<result, gpc>>
           ELSE page' = page /\ result' = "ok" /\ gpc' = "stopped"
  /\ UNCHANGED <<op, pages, srv, live, perPage, buf, acted, calls, lastOutcome,
                 skips, daVars, secVars, restVars>>

\* social.py:367-371: _request raises (its retries used up, or 401/403), or the
\* body is not an array: the exception leaves _paginate
SocPaginateFails ==
  /\ op = "social_paginate"
  /\ result = "running"
  /\ gets' = gets + 1
  /\ result' = "error"
  /\ gpc' = "stopped"
  /\ UNCHANGED <<op, pages, srv, live, perPage, page, buf, pageCount, yielded, acted,
                 calls, lastOutcome, skips, daVars, secVars, restVars>>

InitSocPaginate ==
  /\ RestIdle
  /\ op = "social_paginate"
  /\ perPage = PerPageCap
  /\ pages \in Listings(perPage)
  /\ srv = <<>>
  /\ live = FALSE
  /\ page = 1
  /\ buf = <<>>
  /\ pageCount = 0
  /\ gpc = "fetch"
  /\ gets = 0
  /\ yielded = <<>>
  /\ result = "running"
  /\ acted = 0
  /\ calls = <<>>
  /\ lastOutcome = NoOutcome
  /\ skips = 0
  /\ DaIdle
  /\ SecIdle

NextSocPaginate == SocPaginateGet \/ SocPaginateFails

SpecSocPaginate == InitSocPaginate /\ [][NextSocPaginate]_vars

\* a call that has not returned is not suspended: its next request is sent and answered
FairSpecSocPaginate == SpecSocPaginate /\ WF_vars(NextSocPaginate)

(***************************************************************************)
(* _delete_package_versions (packages.py:183-224).  A URL is the text the  *)
(* code builds.                                                            *)
(***************************************************************************)
\* http_client.py:46
GithubApi == "https://api.github.com"

\* the pkg_type arguments: None, a type as GitHub spells it, a type in capitals with blanks around it
PkgTypes == {None, "container", " NPM "}

\* packages.py:199: (pkg_type or "container").strip().lower()
PkgTypeNorm(t) == IF t = None THEN "container" ELSE IF t = " NPM " THEN "npm" ELSE t

\* the text of a version id
IdText(v) == ToString(v)

\* packages.py:200-201: url_base; the f-string is continued with a backslash inside
\* the literal, so the indentation of line 201 is part of the text
UrlBase(typ, name, pkg_type_norm, pkg_name) ==
  GithubApi \o "/" \o (IF typ = "org" THEN "orgs" ELSE "users")
    \o "        /" \o name \o "/packages/" \o pkg_type_norm \o "/" \o pkg_name \o "/versions"

\* packages.py:214: r.status_code not in (200, 202, 204)
VersionDeleted(st) == st \in {200, 202, 204}

\* what a DELETE comes to: a response, or the exception of http_client.delete
PkgOutcomes ==
  {[kind |-> "resp", status |-> st] : st \in {202, 204, 404}}
    \cup {[kind |-> "exc", status |-> 0]}

\* packages.py:212-224: one turn of the loop: the DELETE of the next version id
PkgDeleteVersion ==
  /\ op = "delete_package_versions"
  /\ result = "running"
  /\ todo # <<>>
  /\ \E o \in PkgOutcomes :
       /\ lastOutcome' = o
       /\ calls' = Append(calls,
            [url |-> UrlBase(args.typ, args.name, PkgTypeNorm(args.pkg_type),
                             args.pkg_name) \o "/" \o IdText(Head(todo)),
             o |-> o])
       /\ IF o.kind = "resp" /\ VersionDeleted(o.status)
          THEN /\ todo' = Tail(todo)
               /\ acted' = acted + 1
               /\ result' = result
          ELSE /\ result' = "error"
               /\ UNCHANGED <<todo, acted>>
  /\ UNCHANGED <<op, pages, srv, live, perPage, page, buf, pageCount, gpc, gets,
                 yielded, skips, daVars, secVars, cvVars, rxVars, followers, following,
                 toFollow, toUnfollow, followed, unfollowed, skipped, obsVars>>

\* packages.py:203-210, 212: the list is empty (a warning is logged), or the loop
\* is over: the function returns
PkgReturn ==
  /\ op = "delete_package_versions"
  /\ result = "running"
  /\ todo = <<>>
  /\ result' = "ok"
  /\ skips' = IF args.version_ids = <<>> THEN skips + 1 ELSE skips
  /\ UNCHANGED <<op, pages, srv, live, perPage, page, buf, pageCount, gpc, gets,
                 yielded, acted, calls, lastOutcome, daVars, secVars, cvVars, rxVars,
                 socVars, obsVars>>

\* the lists of at most MaxRes version ids
VersionLists == UNION {[1 .. n -> 1 .. MaxRes] : n \in 0 .. MaxRes}

InitPackages ==
  /\ ObsIdle
  /\ op = "delete_package_versions"
  /\ \E typ \in {"org", "user"}, t \in PkgTypes, ids \in VersionLists :
       /\ args = [mode |-> "", typ |-> typ, name |-> "acme", pkg_type |-> t,
                  pkg_name |-> "pkg", version_ids |-> ids]
       /\ todo = ids
  /\ http = <<>>
  /\ cvPc = "none"
  /\ attempt = 0
  /\ slept = <<>>
  /\ now = 0
  /\ followers = {}
  /\ following = {}
  /\ toFollow = {}
  /\ toUnfollow = {}
  /\ followed = <<>>
  /\ unfollowed = <<>>
  /\ skipped = <<>>
  /\ pages = <<>>
  /\ srv = <<>>
  /\ live = FALSE
  /\ perPage = PerPageCap
  /\ page = 1
  /\ buf = <<>>
  /\ pageCount = 0
  /\ gpc = "stopped"
  /\ gets = 0
  /\ yielded = <<>>
  /\ result = "running"
  /\ acted = 0
  /\ calls = <<>>
  /\ lastOutcome = NoOutcome
  /\ skips = 0
  /\ DaIdle
  /\ SecIdle

NextPackages == PkgDeleteVersion \/ PkgReturn

SpecPackages == InitPackages /\ [][NextPackages]_vars

(***************************************************************************)
(* main (main.py:493-680): the classic command line, --provider and        *)
(* --operation, dispatched through the provider registry.                  *)
(***************************************************************************)
\* main.py:444-450: the choices of --operation
OperationChoices ==
  {"delete-workflows", "delete-packages", "delete-releases", "delete-cache", "clear-vulns"}

\* main.py:531-538: op_map
OpMap(operation) ==
  CASE operation = "delete-workflows" -> "Pulizia workflow runs (COMPLETED)"
    [] operation = "delete-packages" -> "Elimina packages"
    [] operation = "delete-releases" -> "Elimina releases"
    [] operation = "delete-cache" -> "Elimina Actions cache"
    [] operation = "clear-vulns" -> "Elimina vulnerabilità Code Scanning"

\* actions.py:248-256: register_actions: the labels it registers
RegisterActions == {"Pulizia workflow runs", "Sincronizzazione social"}

\* main.py:214-224: GitHubProvider.__init__: the labels registered (base.py:105
\* keeps label.strip(); no label has blanks around it)
GitHubProvider ==
  {"Elimina packages", "Elimina releases", "Elimina Actions cache",
   "Elimina vulnerabilità Code Scanning"} \cup RegisterActions

\* gitlab/mock.py:9-14: GitLabMockProvider.operations
GitLabMockProvider ==
  {"Delete workflow runs (all)", "Delete packages (list)", "Delete releases (all)",
   "Delete cache (all)"}

\* main.py:227-231: providers_registry
ProvidersRegistry(provider) ==
  IF provider = "github" THEN GitHubProvider ELSE GitLabMockProvider

\* base.py:165: op_key not in self.operations
Registered(op_key, ops) == op_key \in ops

\* main.py:516-528: without provider or operation the menu is shown and main
\* returns 0; else the registry is built and the provider looked up
MainStart ==
  /\ op = "main"
  /\ cvPc = "start"
  /\ IF args.provider = None \/ args.operation = None
     THEN /\ cvPc' = "menu"
          /\ result' = "ok"
          /\ operations' = operations
     ELSE /\ cvPc' = "dispatch"
          /\ result' = result
          /\ operations' = ProvidersRegistry(args.provider)
  /\ UNCHANGED <<op, pages, srv, live, perPage, page, buf, pageCount, gpc, gets,
                 yielded, acted, calls, lastOutcome, skips, daVars, secVars, args, http,
                 rxVars, socVars, wire, logVars, body, arrayKey, errKeys>>

\* main.py:540-639: clear-vulns is called directly: 2 when --repo, --mode or the
\* token is missing, else 0 when clear_vulns returns and 2 when it raises
MainClearVulns ==
  /\ op = "main"
  /\ cvPc = "dispatch"
  /\ args.operation = "clear-vulns"
  /\ cvPc' = "returned"
  /\ IF ~args.repo \/ args.mode = None \/ ~args.token
     THEN /\ result' = "error"
          /\ lastOutcome' = [kind |-> "cli_args_error", status |-> 2]
     ELSE \E ok \in BOOLEAN :
            /\ result' = IF ok THEN "ok" ELSE "error"
            /\ lastOutcome' = [kind |-> IF ok THEN "returned" ELSE "Exception",
                               status |-> IF ok THEN 0 ELSE 2]
  /\ UNCHANGED <<op, pages, srv, live, perPage, page, buf, pageCount, gpc, gets,
                 yielded, acted, calls, skips, daVars, secVars, args, http,
                 rxVars, socVars, obsVars>>

\* main.py:640-680 with base.py:152-176: provider.run(op_map[args.operation]):
\* KeyError when the label is not registered (main returns 2), else the
\* operation runs and main returns 0, or 2 when it raises
MainRun ==
  /\ op = "main"
  /\ cvPc = "dispatch"
  /\ args.operation # "clear-vulns"
  /\ cvPc' = "returned"
  /\ LET op_key == OpMap(args.operation)
     IN /\ calls' = Append(calls, op_key)
        /\ IF ~Registered(op_key, operations)
           THEN /\ result' = "error"
                /\ lastOutcome' = [kind |-> "KeyError", status |-> 2]
           ELSE \E ok \in BOOLEAN :
                  /\ result' = IF ok THEN "ok" ELSE "error"
                  /\ lastOutcome' = [kind |-> IF ok THEN "returned" ELSE "Exception",
                                     status |-> IF ok THEN 0 ELSE 2]
  /\ UNCHANGED <<op, pages, srv, live, perPage, page, buf, pageCount, gpc, gets,
                 yielded, acted, skips, daVars, secVars, args, http,
                 rxVars, socVars, obsVars>>

\* the command lines: each option given or not
MainArgs ==
  [mode : {None, "delete", "dismiss"}, provider : {None, "github", "gitlab"},
   operation : {None} \cup OperationChoices, repo : BOOLEAN, token : BOOLEAN]

InitMain ==
  /\ ObsIdle
  /\ op = "main"
  /\ args \in MainArgs
  /\ http = <<>>
  /\ cvPc = "start"
  /\ attempt = 0
  /\ slept = <<>>
  /\ now = 0
  /\ followers = {}
  /\ following = {}
  /\ toFollow = {}
  /\ toUnfollow = {}
  /\ todo = <<>>
  /\ followed = <<>>
  /\ unfollowed = <<>>
  /\ skipped = <<>>
  /\ pages = <<>>
  /\ srv = <<>>
  /\ live = FALSE
  /\ perPage = PerPageCap
  /\ page = 1
  /\ buf = <<>>
  /\ pageCount = 0
  /\ gpc = "stopped"
  /\ gets = 0
  /\ yielded = <<>>
  /\ result = "running"
  /\ acted = 0
  /\ calls = <<>>
  /\ lastOutcome = NoOutcome
  /\ skips = 0
  /\ DaIdle
  /\ SecIdle

NextMain == MainStart \/ MainClearVulns \/ MainRun

SpecMain == InitMain /\ [][NextMain]_vars

(***************************************************************************)
(* Claims about paginate.                                                  *)
(***************************************************************************)
RECURSIVE ConcatDicts(_, _)
\* the mapping-typed elements of the first n pages, in page and element order
ConcatDicts(ps, n) ==
  IF n = 0 THEN <<>> ELSE ConcatDicts(ps, n - 1) \o OnlyDicts(ps[n])

\* index of the first served page that is empty or holds fewer elements than pp;
\* the page after the last mocked one is served empty
FirstShortPage(ps, pp) ==
  IF \E j \in 1 .. Len(ps) : Len(ps[j]) < pp
  THEN CHOOSE j \in 1 .. Len(ps) :
         /\ Len(ps[j]) < pp
         /\ \A h \in 1 .. j - 1 : Len(ps[h]) >= pp
  ELSE Len(ps) + 1

\* C1: when paginate returns, it has yielded exactly the mapping-typed elements of
\* the pages up to the first page that is empty or shorter than per_page, in page
\* and element order, and it has issued one GET per page up to that page and none
\* after it.
C1_PaginateConcatUntilShortPage ==
  (op = "paginate" /\ result = "ok") =>
     LET last == FirstShortPage(pages, perPage)
     IN /\ gets = last
        /\ yielded = ConcatDicts(pages, Min(last, Len(pages)))

(***************************************************************************)
(* Claims about the bulk-delete orchestrators.                             *)
(***************************************************************************)
RECURSIVE IdsOf(_)
\* the ids of the records of a listing that have one, in order
IdsOf(seq) ==
  IF seq = <<>> THEN <<>>
  ELSE IF Head(seq).id # 0 THEN <<Head(seq).id>> \o IdsOf(Tail(seq))
       ELSE IdsOf(Tail(seq))

DeleteFailed == lastOutcome # NoOutcome /\ ~(lastOutcome.kind = "resp" /\ lastOutcome.status \in {200, 202, 204})

\* C2: when the M-th delete call of a bulk delete fails (its final status is not
\* 200/202/204), the run has ended with the error raised to the caller, exactly
\* M-1 deletions are counted, and the failing record is the last one taken from
\* the listing: no later record is deleted.
C2_AbortOnDeleteFailure ==
  (op \in BulkOps /\ DeleteFailed) =>
     /\ result = "error"
     /\ acted = Len(calls) - 1
     /\ yielded[Len(yielded)].id = calls[Len(calls)]
     /\ ~ENABLED BulkDelete

\* C2 witness: the second of three deletable records failed with an HTTP status
C2_Witness ==
  /\ op \in BulkOps
  /\ lastOutcome.kind = "resp" /\ lastOutcome.status = 404
  /\ Len(calls) = 2
  /\ acted = 1
  /\ ~live /\ Len(srv) = 3 /\ srv[3].id # 0
  /\ result = "error"

\* C3: when a bulk delete returns (every DELETE succeeded) over a listing of N
\* records of which K lack an id, one DELETE was issued per record with an id, in
\* listing order (N-K calls), the total is N-K and K skip events were logged.
C3_BulkDeleteCounts ==
  (op \in BulkOps /\ result = "ok") =>
     /\ calls = IdsOf(yielded)
     /\ acted = Len(IdsOf(yielded))
     /\ skips = Len(yielded) - Len(IdsOf(yielded))

\* C3 witness: a run returned over 3 listed records of which 1 lacks an id
C3_Witness ==
  /\ op \in BulkOps
  /\ result = "ok"
  /\ Len(yielded) = 3
  /\ skips = 1
  /\ acted = 2

\* C4: when a bulk delete returns without error against a server whose listing
\* reflects every deletion immediately, no resource with an id is left on the
\* server.
C4_DeletesAllResources ==
  (op \in BulkOps /\ live /\ result = "ok") =>
     \A i \in 1 .. Len(srv) : srv[i].id = 0

(***************************************************************************)
(* Claims about delete_analysis.                                           *)
(***************************************************************************)
\* a chain of k responses: k-1 times 200/202 with a continuation URL, then a 204
\* or a 200/202 with both URLs null; none of them rate-limited
ConvergentChain(c) ==
  /\ Len(c) >= 1
  /\ \A i \in 1 .. Len(c) : ~c[i].rl
  /\ \A i \in 1 .. Len(c) - 1 :
       c[i].status \in {200, 202} /\ (c[i].confirm # NoUrl \/ c[i].next # NoUrl)
  /\ LET z == c[Len(c)]
     IN \/ z.status = 204
        \/ z.status \in {200, 202} /\ z.confirm = NoUrl /\ z.next = NoUrl

\* C5: on a finite response chain that ends in 204, or in 200 with both URLs
\* null, delete_analysis sends one DELETE per response and returns success: 3
\* DELETE calls for 200(confirm A) -> 200(confirm B) -> 204, 1 call for a first
\* 200 with both URLs null; and it never stops before the end of such a chain.
C5_DeleteAnalysisConverges ==
  (op = "delete_analysis" /\ ~dryRun /\ ConvergentChain(chain)) =>
     /\ result # "error"
     /\ result = "ok" => Len(reqs) = Len(chain)
     /\ result = "running" => (Len(reqs) < Len(chain) /\ ENABLED NextDeleteAnalysis)

\* C5 witness: the chain 200(A) -> 200(B) -> 204 ended in success after 3 DELETEs
C5_Witness ==
  /\ op = "delete_analysis"
  /\ chain = << Resp(200, UrlA, NoUrl, FALSE, FALSE),
                Resp(200, UrlB, NoUrl, FALSE, FALSE),
                Resp(204, NoUrl, NoUrl, FALSE, FALSE) >>
  /\ result = "ok"
  /\ Len(reqs) = 3

(***************************************************************************)
(* Claims about delete_analyses.                                           *)
(***************************************************************************)
\* C6: once delete_analysis has raised for an analysis, the run of
\* delete_analyses is over with the error raised to its caller.
C6_DeleteAnalysesAbortsOnFailure ==
  (op = "delete_analyses" /\ lastOutcome.kind = "raised") => result = "error"

\* C7: every run of delete_analyses terminates.
C7_DeleteAnalysesTerminates == <>(result # "running")

\* number of the listed records that are tool-selected and deletable
NumCandidates(list) == Cardinality({i \in 1 .. Len(list) : IsCandidate(list[i])})

\* C8: when delete_analyses returns over a listing of N records, D of them
\* tool-selected and deletable, scanned = N, deleted = D and delete_analysis was
\* called D times.
C8_ScannedAndDeleted ==
  (op = "delete_analyses" /\ result = "ok") =>
     /\ scanned = Len(OnlyDicts(srv0))
     /\ acted = NumCandidates(srv0)
     /\ Len(calls) = NumCandidates(srv0)

(***************************************************************************)
(* Claims about dismiss_alerts.                                            *)
(***************************************************************************)
\* the alerts of a listing that are tool-selected and satisfy the test on their number
DismissCandidates(seq, NumOk(_)) ==
  SelectSeq(seq, LAMBDA a : IsToolSelected(a.tool, toolsFilter) /\ NumOk(a.num))

NumIsInteger(x) == x.k = "int"
NumConvertible(x) == x.k = "int" \/ (x.k = "str" /\ x.v >= 0)
NumValue(x) == x.v

\* a dismiss call that came back without an exception
CallSucceeded(c) == c.o.kind = "dry" \/ (c.o.kind = "resp" /\ c.o.status = 200)

NumSucceeded == Cardinality({i \in 1 .. Len(calls) : CallSucceeded(calls[i])})

\* the dismiss calls made are those of the candidates, one each, in listing order
CallsAre(cands) ==
  /\ Len(calls) = Len(cands)
  /\ \A i \in 1 .. Len(cands) : calls[i].n = NumValue(cands[i].num)

C10_DismissBestEffort ==
  /\ [][op = "dismiss_alerts" /\ Len(calls') > Len(calls)
          /\ ~CallSucceeded(calls'[Len(calls')]) =>
             acted' = acted /\ result' = "running"]_vars
  /\ [](op = "dismiss_alerts" /\ result = "error" => gpc = "stopped" /\ buf = <<>>)
  /\ [](op = "dismiss_alerts" /\ result = "ok" =>
          /\ Len(calls) = Len(DismissCandidates(yielded, NumConvertible))
          /\ acted = NumSucceeded)

\* C10 witness: the first dismiss call failed with an HTTP status, a later alert
\* was dismissed all the same, and the run returned with one dismissal counted
C10_Witness ==
  /\ op = "dismiss_alerts" /\ result = "ok"
  /\ Len(calls) >= 2
  /\ calls[1].o.kind = "resp" /\ calls[1].o.status = 404
  /\ CallSucceeded(calls[2])
  /\ acted = 1

(***************************************************************************)
(* Claims about clear_vulns.                                               *)
(***************************************************************************)
InvalidInput ==
  args.mode \notin {"delete", "dismiss"}
    \/ (args.mode = "dismiss" /\ args.reason \notin ValidReasons)

\* C11: a clear_vulns call with an unsupported mode, or in dismiss mode with a
\* reason outside the three valid ones, ends with ValueError and without any HTTP
\* request sent: nothing fetched, patched or deleted.
C11_InvalidInputFailsFast ==
  (cvPc = "done" /\ InvalidInput) =>
     /\ result = "ValueError"
     /\ http = <<>>
     /\ gets = 0
     /\ calls = <<>>

(***************************************************************************)
(* Claims about sync_followers.                                            *)
(***************************************************************************)
\* the logins a list names, blanks around an entry and empty entries aside
NamedBy(raw) == {u \in Users : \E e \in raw : e.u = u}

\* C12: once the lists are fetched, to_follow holds exactly the followers that
\* are not followed and not on the blocklist, to_unfollow exactly the followed
\* users that are not followers and not on the allowlist; so to_follow shares no
\* user with the blocklist and to_unfollow none with the allowlist.
C12_SyncCandidateSets ==
  (op = "sync_followers" /\ gpc = "yield") =>
     /\ toFollow = {u \in Users : u \in followers /\ u \notin following
                                    /\ u \notin NamedBy(args.blocklist)}
     /\ toUnfollow = {u \in Users : u \in following /\ u \notin followers
                                      /\ u \notin NamedBy(args.allowlist)}
     /\ toFollow \cap NamedBy(args.blocklist) = {}
     /\ toUnfollow \cap NamedBy(args.allowlist) = {}

\* C12 witness: followers {1,2}, following {2,3}, 1 blocked, 3 allowed: nothing to
\* follow, nothing to unfollow
C12_Witness ==
  /\ op = "sync_followers" /\ gpc = "yield"
  /\ followers = {1, 2} /\ following = {2, 3}
  /\ NamedBy(args.blocklist) = {1} /\ NamedBy(args.allowlist) = {3}
  /\ toFollow = {} /\ toUnfollow = {}

\* C13: in dry-run no follow or unfollow call is ever made and followed and
\* unfollowed stay empty; when the sync returns, skipped holds every member of
\* to_follow with reason dry_run_follow, every member of to_unfollow with reason
\* dry_run_unfollow, and nobody else.
C13_DryRunSkipsAll ==
  (op = "sync_followers" /\ dryRun) =>
     /\ calls = <<>>
     /\ followed = <<>>
     /\ unfollowed = <<>>
     /\ result = "ok" =>
          /\ DOMAIN skipped = toFollow \cup toUnfollow
          /\ \A u \in toFollow : skipped[u] = "dry_run_follow"
          /\ \A u \in toUnfollow : skipped[u] = "dry_run_unfollow"

\* C13 witness: a dry-run sync returned with a user to follow and one to unfollow
C13_Witness ==
  /\ op = "sync_followers" /\ dryRun /\ result = "ok"
  /\ toFollow # {} /\ toUnfollow # {}
  /\ DOMAIN skipped = toFollow \cup toUnfollow

\* C14: outside dry-run, a follow or unfollow call that ends in an API error is
\* recorded in skipped under its username and does not end the sync: the sync
\* raises only when a list could not be fetched, and when it returns every member
\* of to_follow and of to_unfollow has had exactly one call, in sorted order.
C14_SyncBestEffort ==
  (op = "sync_followers" /\ ~dryRun) =>
     /\ \A i \in 1 .. Len(calls) :
          calls[i].o.kind # "resp" =>
             /\ calls[i].u \in DOMAIN skipped
             /\ skipped[calls[i].u] = "error:" \o calls[i].o.kind
     /\ result = "error" => calls = <<>>
     /\ result = "ok" =>
          /\ Len(calls) = Cardinality(toFollow) + Cardinality(toUnfollow)
          /\ \A u \in toFollow : \E i \in 1 .. Len(calls) :
               calls[i].act = "follow" /\ calls[i].u = u
          /\ \A u \in toUnfollow : \E i \in 1 .. Len(calls) :
               calls[i].act = "unfollow" /\ calls[i].u = u

\* C14 witness: the first call failed with an API error, the next user was
\* handled all the same, and the sync returned
C14_Witness ==
  /\ op = "sync_followers" /\ ~dryRun /\ result = "ok"
  /\ Len(calls) >= 2
  /\ calls[1].o.kind = "GitHubAPIError"
  /\ calls[2].o.kind = "resp"
  /\ calls[1].u \in DOMAIN skipped

(***************************************************************************)
(* Claims about the request executors.                                     *)
(***************************************************************************)
\* a transient outcome: a retryable status or an exception of the network
Transient(o) == o.kind = "exc" \/ o.status \in {429, 500, 502, 503, 504}

Retrying == op = "request" /\ args.exec \in {"http_client", "social"}

\* C15: a call of request or of GitHubSocialService._request sends the request
\* at most 6 times (5 retries), whatever mix of retryable statuses and network
\* exceptions it meets; it always ends; a transient outcome ends it only as the
\* sixth one, and then that outcome is what the caller gets: the response (or
\* the exception) from request, GitHubAPIError from _request, never a success.
C15_BoundedRetries ==
  /\ [](Retrying =>
          /\ attempt = Len(chain)
          /\ attempt <= 5 + 1
          /\ (result = "running" => \A i \in 1 .. Len(chain) : Transient(chain[i]))
          /\ (result # "running" /\ Transient(chain[Len(chain)]) =>
                /\ attempt = 5 + 1
                /\ lastOutcome = chain[Len(chain)]
                /\ result = IF args.exec = "social" THEN "GitHubAPIError"
                            ELSE IF lastOutcome.kind = "exc" THEN "RequestException"
                            ELSE "returned"))
  /\ (Retrying => <>(result # "running"))

\* C15 witness: six transient outcomes, exceptions and statuses mixed, the last
\* an exception that request raised to its caller
C15_Witness ==
  /\ Retrying /\ args.exec = "http_client"
  /\ attempt = 6
  /\ chain[1].kind = "exc" /\ chain[2].status = 500 /\ chain[3].status = 429
  /\ chain[6].kind = "exc"
  /\ result = "RequestException"

\* the response says the rate limit is exhausted: both headers hold integers and
\* remaining <= 0
Exhausted(o) ==
  /\ o.kind = "resp"
  /\ o.rem.k = "str" /\ o.rem.v >= 0 /\ o.rem.v <= 0
  /\ o.reset.k = "str" /\ o.reset.v >= 0

\* the rate-limit sleeps made for the response of attempt i
RateSleepsAt(i) ==
  {j \in 1 .. Len(slept) : slept[j].kind = "rate" /\ slept[j].at = i}

\* the responses whose headers the executor looks at: all of them, but for
\* security's _request the first one only
Inspected(i) == chain[i].kind = "resp" /\ (args.exec = "security" => i = 1)

\* one sleep of max(0, reset - now) + 1 seconds was made for the response i
SleptUntilReset(i) ==
  /\ Cardinality(RateSleepsAt(i)) = 1
  /\ \A j \in RateSleepsAt(i) :
       slept[j].secs = Max(0, chain[i].reset.v - slept[j].now) + 1

\* C16 (as stated): for a response with remaining <= 0 and a reset the executor
\* sleeps max(0, reset - now) + 1 seconds, and for a response with remaining > 0,
\* or with one of the two headers missing or not an integer, it does not sleep
\* for the rate limit.
C16_RateLimitWaitOnlyOnHeaders ==
  op = "request" =>
     \A i \in 1 .. Len(chain) :
        Inspected(i) =>
           IF Exhausted(chain[i]) THEN SleptUntilReset(i) ELSE RateSleepsAt(i) = {}

\* a 403 whose body holds "rate limit", received by security's _request
SecFallbackCase(i) ==
  args.exec = "security" /\ chain[i].status = 403 /\ chain[i].rlText

\* C16 (amended): the same, except that GitHubSecurityClient._request also sleeps
\* for a 403 whose body holds "rate limit" although the headers do not say
\* remaining <= 0: until one second after the reset when the reset header holds
\* an integer, else 30 seconds.
C16_RateLimitWait ==
  op = "request" =>
     \A i \in 1 .. Len(chain) :
        Inspected(i) =>
           IF Exhausted(chain[i]) THEN SleptUntilReset(i)
           ELSE IF SecFallbackCase(i)
           THEN IF chain[i].reset.k = "str" /\ chain[i].reset.v >= 0
                THEN SleptUntilReset(i)
                ELSE /\ Cardinality(RateSleepsAt(i)) = 1
                     /\ \A j \in RateSleepsAt(i) : slept[j].secs = 30
           ELSE RateSleepsAt(i) = {}

\* C16 witness: a response with remaining 0 and reset = now + 5 was slept for 6
\* seconds, and a later one whose reset had passed for 1 second
C16_Witness ==
  /\ op = "request"
  /\ \E j \in 1 .. Len(slept) :
       slept[j].kind = "rate" /\ slept[j].secs = 6
         /\ chain[slept[j].at].reset.v = slept[j].now + 5
  /\ \E j \in 1 .. Len(slept) :
       slept[j].kind = "rate" /\ slept[j].secs = 1
         /\ chain[slept[j].at].reset.v < slept[j].now

\* C17: when request or security's _request has slept for a rate-limited
\* response (an error status with remaining <= 0), one more attempt follows and
\* the caller gets the outcome of that attempt: a call never ends with the
\* rate-limited response it has slept for.
C17_RateLimitTransparent ==
  (op = "request" /\ args.exec \in {"http_client", "security"} /\ result # "running") =>
     \A i \in 1 .. Len(chain) :
        (Exhausted(chain[i]) /\ chain[i].status >= 400 /\ RateSleepsAt(i) # {}) =>
           Len(chain) > i

\* a 401 or 403 that has nothing of a rate limit about it
AuthFatal(o) ==
  o.kind = "resp" /\ o.status \in {401, 403} /\ ~Exhausted(o) /\ ~o.rlText

\* C18: a 401 or 403 outside a rate-limit context ends the call at once: no
\* attempt and no sleep follows it, _request of GitHubSocialService raises
\* AuthenticationError, request and security's _request return the response;
\* as the first response, it leaves the call with one request sent and no sleep.
C18_AuthFailureNotRetried ==
  op = "request" =>
     \A i \in 1 .. Len(chain) :
        AuthFatal(chain[i]) =>
           /\ i = Len(chain)
           /\ \A j \in 1 .. Len(slept) : slept[j].at < i
           /\ lastOutcome = chain[i]
           /\ result = IF args.exec = "social" THEN "AuthenticationError" ELSE "returned"
           /\ (i = 1 => attempt = 1 /\ slept = <<>>)

\* C18 witness: the first response is a plain 403 and _request has raised
\* AuthenticationError
C18_Witness ==
  /\ op = "request" /\ args.exec = "social"
  /\ Len(chain) = 1 /\ chain[1].status = 403 /\ AuthFatal(chain[1])
  /\ result = "AuthenticationError"
  /\ slept = <<>>

(***************************************************************************)
(* Claims about the orchestrators as a whole.                              *)
(***************************************************************************)
\* C19: within one run that is not a dry-run, delete_analyses makes at most one
\* delete_analysis call per analysis: no analysis id occurs twice among the calls
\* (repeats of the HTTP request are left to the request executor).
C19_AtMostOnceByOrchestrator ==
  (op = "delete_analyses" /\ ~dryRun) =>
     \A i, j \in 1 .. Len(calls) : i # j => calls[i] # calls[j]

(***************************************************************************)
(* Claims about the page size.                                             *)
(***************************************************************************)
\* C20 (as stated): whatever page size is supplied or configured, the run gets to
\* its paginated GET and sends a per_page within the range: a value outside the
\* range or not an integer has been clamped or replaced by the default.
C20_PageSizeClampedOrDefault ==
  (op = "page_size" /\ cvPc = "done") =>
     /\ result = "ok"
     /\ perPage \in 1 .. PerPageCap

\* C20 (amended): every per_page sent is within the range; paginate clamps an
\* integer and takes the default for anything else, the settings take the
\* default for a SYNC_PAGE_SIZE that is unset, no integer or out of range, the
\* service clamps; but a page_size argument out of range is refused by the
\* settings with ValueError, before any request.
C20_PageSizeInRange ==
  (op = "page_size" /\ cvPc = "done") =>
     /\ result = "ok" => gets = 1 /\ perPage \in 1 .. PerPageCap
     /\ result # "ok" =>
          /\ result = "ValueError" /\ gets = 0
          /\ args.path = "settings"
          /\ args.override # NoNum
          /\ args.override.v < 1 \/ args.override.v > PerPageCap
     /\ (args.path = "paginate" /\ args.raw.k # "int") => perPage = PerPageCap
     /\ (args.path = "paginate" /\ args.raw.k = "int" /\ args.raw.v > PerPageCap) =>
          perPage = PerPageCap
     /\ (args.path = "paginate" /\ args.raw.k = "int" /\ args.raw.v < 1) => perPage = 1
     /\ (args.path = "settings" /\ args.override = NoNum
           /\ (args.env.k # "num" \/ args.env.v < 1 \/ args.env.v > PerPageCap)) =>
          perPage = PerPageCap
     /\ (args.path = "service" /\ args.override.v > PerPageCap) => perPage = PerPageCap
     /\ (args.path = "service" /\ args.override.v < 1) => perPage = 1

\* C20 witness: SYNC_PAGE_SIZE above the ceiling and no page_size argument: the
\* sync sends the default
C20_Witness ==
  /\ op = "page_size" /\ cvPc = "done" /\ result = "ok"
  /\ args.path = "settings" /\ args.override = NoNum
  /\ args.env.k = "num" /\ args.env.v > PerPageCap
  /\ perPage = PerPageCap /\ gets = 1

(***************************************************************************)
(* Claims about dry-run of the code-scanning client.                       *)
(***************************************************************************)
\* C21: with dry_run set the code-scanning client changes nothing: whatever
\* clear_vulns, delete_analyses, dismiss_alerts or delete_analysis do, no DELETE
\* and no PATCH is sent (the listing GETs are all that reaches the server), and
\* every dismiss_alert call comes back without a request.
C21_DryRunSendsNothing ==
  dryRun =>
     /\ wire = {}
     /\ reqs = <<>>
     /\ \A i \in DOMAIN calls :
          op = "dismiss_alerts" => calls[i].o.kind = "dry"

\* a dry-run clear_vulns in dismiss mode that listed the alerts, went through
\* its dismiss_alert calls and returned
C21_Witness ==
  /\ dryRun
  /\ op = "dismiss_alerts"
  /\ cvPc = "done"
  /\ result = "ok"
  /\ gets >= 1
  /\ acted >= 1

(***************************************************************************)
(* Claims about structured logging.                                        *)
(***************************************************************************)
\* the strings stored under a sensitive key of a mapping, at any depth
RECURSIVE SecretsOf(_)
SecretsOf(p) ==
  UNION { IF IsSensitive(k)
          THEN (IF p[k].t = "str" THEN {p[k].s} ELSE {})
          ELSE IF p[k].t = "map" THEN SecretsOf(p[k].m) ELSE {} : k \in DOMAIN p }

\* s occurs in t
IsSubstring(s, t) ==
  \E i \in 0 .. (Len(t) - Len(s)) : SubSeq(t, i + 1, i + Len(s)) = s

\* C22: logging never emits a secret: whatever payload log_event is given, no
\* value stored under a sensitive key (token, authorization, ...), at the top level
\* or inside a nested mapping, occurs literally in the emitted record.
C22_NoSecretInLog ==
  (op = "log_event" /\ logPc = "emitted") =>
     \A s \in SecretsOf(payload) \cup SecretsOf(mdc) :
        \A t \in line : ~IsSubstring(s, t)

(***************************************************************************)
(* Claims about the steps of delete_analysis.                              *)
(***************************************************************************)
\* the latest response delete_analysis received (NoResp: none, or the request
\* raised instead of answering)
LastResp == IF pos - 1 \in DOMAIN chain THEN chain[pos - 1] ELSE NoResp

\* C23: delete_analysis (not in dry-run) returns normally only when the last
\* response it received was 204, or 200/202 with neither confirm_delete_url nor
\* next_analysis_url in the body; any other status, at the first DELETE, at the
\* confirm retry or at a follow-up DELETE, ends in Failed with an error raised
\* that carries the status of that response - the one exception being the first
\* answer 400 that asks for confirmation, which leads to the confirm retry.
C23_ReturnsOnlyWhenFinal ==
  (op = "delete_analysis" /\ ~dryRun) =>
     /\ daPc = "done" =>
          /\ LastResp # NoResp
          /\ \/ LastResp.status = 204
             \/ /\ LastResp.status \in {200, 202}
                /\ LastResp.confirm = NoUrl
                /\ LastResp.next = NoUrl
     /\ (LastResp # NoResp /\ LastResp.status \notin {200, 202, 204}) =>
          \/ /\ daPc = "failed"
             /\ result = "error"
             /\ lastOutcome = [kind |-> "RuntimeError", status |-> LastResp.status]
          \/ /\ daPc = "confirm"
             /\ LastResp.status = 400
             /\ LastResp.needConfirm
             /\ \A i \in DOMAIN reqs : reqs[i] = BasePath

\* a follow-up DELETE, the third request after a confirm retry, answered 404:
\* failed with that status
C23_Witness ==
  /\ op = "delete_analysis"
  /\ daPc = "failed"
  /\ Len(reqs) = 3
  /\ reqs[2] = PathWithConfirm
  /\ reqs[3].name # "base"
  /\ lastOutcome = [kind |-> "RuntimeError", status |-> 404]

\* the index in chain of the answer the first _request call returned, and of
\* the answer the confirm retry returned: the request executor sends a request
\* a second time when the answer says the rate limit is exhausted
FirstAnswerAt == IF Len(chain) >= 1 /\ chain[1].rl THEN 2 ELSE 1
ConfirmAnswerAt ==
  IF Len(chain) > FirstAnswerAt /\ chain[FirstAnswerAt + 1].rl
  THEN FirstAnswerAt + 2
  ELSE FirstAnswerAt + 1

\* the requests sent to the analysis path itself, in order
ToAnalysisPath == SelectSeq(reqs, LAMBDA u : u.name = "base")

\* C24: when the first DELETE is answered 400 with a body that mentions the
\* confirmation requirement, one more DELETE call is made, to the same analysis
\* path with confirm_delete=true (the request executor sends it again once if the
\* answer says the rate limit is exhausted), and no other request to that path
\* follows: answered 204 the call is Done, answered 200/202 that response goes
\* through the follow-up handling (Done if it has no URL, else a DELETE to its
\* URL), any other answer fails; and a first 400 that does not mention
\* confirmation fails without any second DELETE.
C24_ConfirmRetry ==
  (op = "delete_analysis" /\ ~dryRun /\ daPc \in {"follow", "done", "failed"}
     /\ FirstAnswerAt \in DOMAIN chain) =>
     LET a1 == chain[FirstAnswerAt]
         k == ConfirmAnswerAt
     IN /\ (a1.status = 400 /\ a1.needConfirm) =>
             /\ ToAnalysisPath = [i \in 1 .. Min(k, Len(reqs)) |->
                                    IF i <= FirstAnswerAt THEN BasePath
                                    ELSE PathWithConfirm]
             /\ Len(reqs) > FirstAnswerAt
             /\ k \in DOMAIN chain =>
                  /\ chain[k].status = 204 => (daPc = "done" /\ Len(reqs) = k)
                  /\ (chain[k].status \in {200, 202} /\ IsFinal(chain[k])) =>
                       (daPc = "done" /\ Len(reqs) = k)
                  /\ (chain[k].status \in {200, 202} /\ ~IsFinal(chain[k])) =>
                       /\ daPc = "follow" /\ Len(reqs) = k =>
                            target = EnsureConfirm(FollowUrl(chain[k]))
                       /\ Len(reqs) > k => reqs[k + 1] = EnsureConfirm(FollowUrl(chain[k]))
                       /\ Len(reqs) >= k
                  /\ chain[k].status \notin {200, 202, 204} =>
                       (daPc = "failed" /\ Len(reqs) = k)
        /\ (a1.status = 400 /\ ~a1.needConfirm) =>
             /\ daPc = "failed"
             /\ Len(reqs) = FirstAnswerAt
             /\ \A i \in DOMAIN reqs : reqs[i] = BasePath

\* first answer 400 asking for confirmation, the confirm retry answered 200 with
\* a URL, and the follow-up DELETE sent
C24_Witness ==
  /\ op = "delete_analysis"
  /\ Len(chain) >= 2
  /\ chain[1].status = 400 /\ chain[1].needConfirm
  /\ chain[2].status = 200 /\ ~IsFinal(chain[2])
  /\ Len(reqs) = 3
  /\ reqs[2] = PathWithConfirm

\* C25: every follow-up DELETE goes to the confirm_delete_url of the 200/202
\* response before it when that is present, to its next_analysis_url otherwise,
\* and the URL it is sent to has the confirm_delete flag in its query string:
\* the server's URL as it is when it has the flag, else with it appended after
\* '&' when the URL has a query string and after '?' when it has none.
C25_FollowUpTarget ==
  (op = "delete_analysis") =>
     \A i \in DOMAIN reqs :
        reqs[i].name # "base" =>
          /\ i - 1 \in DOMAIN chain
          /\ chain[i - 1].status \in {200, 202}
          /\ LET prev == chain[i - 1]
                 u == IF prev.confirm # NoUrl THEN prev.confirm ELSE prev.next
             IN /\ u # NoUrl
                /\ reqs[i].name = u.name
                /\ reqs[i].cd /\ reqs[i].q
                /\ u.cd => reqs[i] = u
                /\ ~u.cd => reqs[i].sep = (IF u.q THEN "&" ELSE "?")

\* follow-up DELETEs sent to a URL completed with '?', and to one completed
\* with '&'
C25_Witness ==
  /\ op = "delete_analysis"
  /\ \E i \in DOMAIN reqs : reqs[i].name = "A" /\ reqs[i].sep = "?"
  /\ \E i \in DOMAIN reqs : reqs[i].name = "B" /\ reqs[i].sep = "&"

\* C26: the Following state of delete_analysis always ends: whatever the server
\* answers, a call that has started to follow the server's URLs eventually is
\* Done or Failed, having sent finitely many DELETE requests.
C26_FollowingEnds ==
  (op = "delete_analysis" /\ daPc = "follow") ~> (daPc \in {"done", "failed"})

\* the responses received so far that say the rate limit is exhausted
\* (X-RateLimit-Remaining <= 0) and after which a further request was sent
LimitedThenSent == {i \in 1 .. Len(reqs) - 1 : i \in DOMAIN chain /\ chain[i].rl}

\* C27: the rate-limit headers of every response received are inspected - those
\* of the answers to delete_analysis's follow-up DELETEs and of the answer to the
\* attempt made after a rate-limit wait included - and when remaining <= 0 the
\* executor sleeps until the reset before any further request is sent: there are
\* as many waits as there are such responses followed by a request.
C27_EveryResponseInspected ==
  (op = "delete_analysis" /\ ~endless) => Cardinality(LimitedThenSent) = sleeps

(***************************************************************************)
(* Claims about the scan of delete_analyses.                               *)
(***************************************************************************)
\* an analysis marked deletable whose tool the filter selects: every tool with
\* the empty filter, else a tool that has a name and whose name is in the filter
SelectedDeletable(a) ==
  /\ a.dict
  /\ a.deletable
  /\ toolsFilter = {} \/ (a.tool # "" /\ a.tool \in toolsFilter)

\* the records of the listing up to index i, as the scan counts them
ListedUpTo(i) == Cardinality({h \in 1 .. i : srv[h].dict})

\* C28: delete_analyses calls delete_analysis only for an analysis that the scan
\* just made found marked deletable and tool-selected (the empty filter selects
\* every tool, an analysis without tool name is selected by the empty filter
\* only); the analysis is the first such one in listing order, and every scan
\* goes through the list from page 1 up to it.
C28_DeletesFirstSelectedDeletable ==
  /\ [](op = "delete_analyses" /\ found # <<>> =>
          /\ SelectedDeletable(found[1])
          /\ \E i \in 1 .. Len(srv) :
               /\ srv[i] = found[1]
               /\ \A h \in 1 .. i - 1 : ~SelectedDeletable(srv[h]))
  /\ [][(op = "delete_analyses" /\ calls' # calls) =>
          /\ found # <<>>
          /\ ParseInt(found[1].num).ok
          /\ calls' = Append(calls, ParseInt(found[1].num).val)]_vars
  /\ [][(op = "delete_analyses" /\ found = <<>> /\ found' # <<>>) =>
          \E i \in 1 .. Len(srv) :
             /\ srv[i] = found'[1]
             /\ \A h \in 1 .. i - 1 : ~SelectedDeletable(srv[h])
             /\ scanned' = Min(scanned + ListedUpTo(i), CounterCap)
             /\ gets' = Min(gets + ((i + perPage - 1) \div perPage), CounterCap)]_vars

\* with the filter Trivy,Grype a deletable CodeQL analysis heads the list and the
\* first delete_analysis call is for the second analysis
C28_Witness ==
  /\ op = "delete_analyses"
  /\ toolsFilter # {}
  /\ Len(srv0) >= 2
  /\ srv0[1].tool = "CodeQL" /\ srv0[1].deletable
  /\ calls # <<>>
  /\ calls[1] = 2

\* C29: a tool-selected deletable analysis whose id is missing or not an integer
\* is skipped by delete_analyses - no delete_analysis call for it, the run not
\* aborted - and the run goes on to the other tool-selected deletable analyses
\* and then returns: a run that has skipped such an analysis eventually ends.
C29_SkipsBadIdAndReturns ==
  /\ [][(op = "delete_analyses" /\ skips' # skips) =>
          (calls' = calls /\ result' = "running")]_vars
  /\ (op = "delete_analyses" /\ skips > 0) ~> (result # "running")

(***************************************************************************)
(* Claims about dismiss_alerts against a live listing.                     *)
(***************************************************************************)
\* C30: dismiss_alerts sends a dismiss PATCH for each tool-selected alert of the
\* requested state: when a run (not a dry-run) returns against a server whose
\* page-numbered listing of that state drops an alert as soon as it is dismissed,
\* every tool-selected alert with an integer number that was listed at the start
\* has had its PATCH - whether the alerts fit in one page or not.
C30_EveryAlertPatched ==
  (op = "dismiss_alerts" /\ live /\ ~dryRun /\ result = "ok") =>
     \A i \in 1 .. Len(srv0) :
        (srv0[i].dict /\ IsToolSelected(srv0[i].tool, toolsFilter)
           /\ NumIsInteger(srv0[i].num)) =>
          \E c \in 1 .. Len(calls) : calls[c].n = NumValue(srv0[i].num)

(***************************************************************************)
(* Claims about the counters of clear_vulns.                               *)
(***************************************************************************)
\* the dismiss_alert calls whose PATCH the server answered 200
PatchedOk == {i \in 1 .. Len(calls) : calls[i].o.kind = "resp" /\ calls[i].o.status = 200}

\* C31: the acted counter of clear_vulns (here: dismissed) is the number of
\* records on which the destructive action succeeded on the server - a PATCH
\* answered 200 - in every mode, dry-run included.
C31_ActedCountsServerSuccesses ==
  (op = "dismiss_alerts") => acted = Cardinality(PatchedOk)

(***************************************************************************)
(* Claims about the body of a page.                                        *)
(***************************************************************************)
\* the mapping holds an array under key k
HoldsArray(k) ==
  \E i \in 1 .. Len(body.entries) : body.entries[i].key = k /\ body.entries[i].val.list

\* the elements of the array under key k
ArrayUnder(k) ==
  body.entries[CHOOSE i \in 1 .. Len(body.entries) : body.entries[i].key = k].val.elems

\* the key the order of precedence designates: array_key, workflow_runs, caches, then the first key holding an array
DesignatedKey ==
  IF arrayKey # None /\ HoldsArray(arrayKey) THEN arrayKey
  ELSE IF HoldsArray("workflow_runs") THEN "workflow_runs"
  ELSE IF HoldsArray("caches") THEN "caches"
  ELSE body.entries[FirstListIndex(body.entries)].key

\* the page has been examined
BodyExamined == op = "paginate_body" /\ gets = 1

\* C32: for a mapping-shaped page the records are the mappings of the array under array_key, else under workflow_runs, else under caches, else under the first key holding an array; a mapping without array raises an error naming its keys, and a body that is neither array nor mapping raises too.
C32_ArrayByPrecedence ==
  /\ (BodyExamined /\ body.shape = "dict" /\ (\E k \in BodyKeys : HoldsArray(k)))
       => /\ result # "error"
          /\ buf = OnlyDicts(ArrayUnder(DesignatedKey))
  /\ (BodyExamined /\ body.shape = "dict" /\ ~(\E k \in BodyKeys : HoldsArray(k)))
       => /\ result = "error"
          /\ errKeys = [i \in 1 .. Len(body.entries) |-> body.entries[i].key]
  /\ (BodyExamined /\ body.shape = "other") => result = "error"

\* the mapping has key k
HasKey(k) == \E i \in 1 .. Len(body.entries) : body.entries[i].key = k

\* the first key holding an array
FirstArrayKey == body.entries[FirstListIndex(body.entries)].key

\* the key looked up first: array_key when supplied; without array_key, workflow_runs when the mapping has it, else caches when the mapping has it
LookedUpKey ==
  IF arrayKey # None THEN arrayKey
  ELSE IF HasKey("workflow_runs") THEN "workflow_runs"
  ELSE IF HasKey("caches") THEN "caches"
  ELSE None

\* C32 (amended): the well-known wrapper keys are tried only when array_key is not supplied, and the one tried is chosen by its presence (workflow_runs, then caches); the records are the mappings of the array under the key looked up, and whenever no array is there, of the array under the first key holding one; without any array the error names the keys; a body neither array nor mapping raises.
C32_ArrayByKeyThenFirst ==
  /\ (BodyExamined /\ body.shape = "dict" /\ (\E k \in BodyKeys : HoldsArray(k)))
       => /\ result # "error"
          /\ buf = OnlyDicts(ArrayUnder(IF LookedUpKey # None /\ HoldsArray(LookedUpKey)
                                        THEN LookedUpKey ELSE FirstArrayKey))
  /\ (BodyExamined /\ body.shape = "dict" /\ ~(\E k \in BodyKeys : HoldsArray(k)))
       => /\ result = "error"
          /\ errKeys = [i \in 1 .. Len(body.entries) |-> body.entries[i].key]
  /\ (BodyExamined /\ body.shape = "other") => result = "error"

\* a supplied array_key that is not in the mapping, a caches array behind another array: the records of the first array are about to be yielded
C32_Witness ==
  /\ BodyExamined
  /\ body.shape = "dict"
  /\ arrayKey = "workflow_runs"
  /\ ~HasKey("workflow_runs")
  /\ HoldsArray("caches")
  /\ FirstArrayKey = "items"
  /\ buf = OnlyDicts(ArrayUnder("items"))
  /\ buf # <<>>
  /\ buf # OnlyDicts(ArrayUnder("caches"))

(***************************************************************************)
(* Claims about the last-page test of paginate.                            *)
(***************************************************************************)
\* page k holds exactly per_page elements, at least one of them not a mapping
FullWithNonMapping(k) ==
  /\ Len(pages[k]) = perPage
  /\ \E i \in 1 .. Len(pages[k]) : ~pages[k][i].dict

\* page k holds elements, none of them a mapping
OnlyNonMappings(k) ==
  /\ pages[k] # <<>>
  /\ \A i \in 1 .. Len(pages[k]) : ~pages[k][i].dict

StatedBases == <<500000, 1000000, 2000000, 4000000, 8000000>>

\* C34: the k-th backoff sleep (k = 1..5) lasts base_k = 0.5, 1, 2, 4, 8 s plus or minus at most 10% of base_k; it is never negative, base_k is at most 30 s, and the bases do not decrease with k.
C34_BackoffDelays ==
  (op = "backoff") =>
    /\ Len(slept) <= 5
    /\ \A k \in 1 .. Len(slept) :
         LET d == slept[k].secs
             b == StatedBases[k]
         IN /\ slept[k].at = k
            /\ 10 * (d - b) <= b
            /\ 10 * (b - d) <= b
            /\ d >= 0
            /\ b = BackoffBase(k)
            /\ b <= 30 * 1000000
            /\ (k > 1 => StatedBases[k - 1] <= b)

\* the five sleeps were made, the first one shorter than its base by the whole jitter, the last one longer than its base
C34_Witness ==
  /\ op = "backoff"
  /\ Len(slept) = 5
  /\ slept[1].secs = 450000
  /\ slept[5].secs > 8000000
  /\ result = "error"

(***************************************************************************)
(* Claims about GitHubSocialService._paginate.                             *)
(***************************************************************************)
\* the response for page k advertises rel="next"
AdvertisesNext(k) == k <= Len(pages) /\ "next" \in pages[k].link

\* the mappings of page k
MappingsOf(k) == IF k <= Len(pages) THEN OnlyDicts(pages[k].elems) ELSE <<>>

RECURSIVE MappingsUpTo(_)
\* the mappings of pages 1 .. k, in order
MappingsUpTo(k) == IF k = 0 THEN <<>> ELSE MappingsUpTo(k - 1) \o MappingsOf(k)

FullBatch(k) == Len(MappingsOf(k)) >= perPage

VersionEndpoint(v) ==
  GithubApi \o "/" \o (IF args.typ = "org" THEN "orgs" ELSE "users") \o "/" \o args.name
    \o "/packages/" \o PkgTypeNorm(args.pkg_type) \o "/" \o args.pkg_name
    \o "/versions/" \o ToString(v)

\* the i-th DELETE was answered 200, 202 or 204
DeleteAccepted(i) == calls[i].o.kind = "resp" /\ calls[i].o.status \in {200, 202, 204}

\* the DELETE calls follow the list: one per id, in order, none after a refused one
DeletesFollowList ==
  /\ Len(calls) <= Len(args.version_ids)
  /\ \A i \in 1 .. Len(calls) - 1 : DeleteAccepted(i)
  /\ (result = "ok") =>
       /\ Len(calls) = Len(args.version_ids)
       /\ \A i \in 1 .. Len(calls) : DeleteAccepted(i)
  /\ (result = "error") => (calls # <<>> /\ ~DeleteAccepted(Len(calls)))
  /\ (result = "running" /\ calls # <<>>) => DeleteAccepted(Len(calls))

\* C36: one DELETE per version id of the list, in list order, each against the versions/{id} endpoint of the package; the first DELETE not answered 200/202/204 raises and no DELETE follows it; an empty list sends nothing.
C36_OneDeletePerVersion ==
  (op = "delete_package_versions") =>
    /\ DeletesFollowList
    /\ \A i \in 1 .. Len(calls) : calls[i].url = VersionEndpoint(args.version_ids[i])

(***************************************************************************)
(* Claims about the report of sync_followers.                              *)
(***************************************************************************)
\* the users of a list
UsersOf(list) == {list[i] : i \in 1 .. Len(list)}

\* the number of the three records (followed, unfollowed, skipped) that hold user u
RecordsHolding(u) ==
  Cardinality({r \in {"followed", "unfollowed", "skipped"} :
                 \/ r = "followed" /\ u \in UsersOf(followed)
                 \/ r = "unfollowed" /\ u \in UsersOf(unfollowed)
                 \/ r = "skipped" /\ u \in DOMAIN skipped})

\* C37: in every report that sync_followers returns, followed is within to_follow, unfollowed within to_unfollow, to_follow and to_unfollow share no user, and every user of to_follow or to_unfollow is in exactly one of followed, unfollowed and skipped.
C37_ReportPartition ==
  (op = "sync_followers" /\ result = "ok") =>
     /\ UsersOf(followed) \subseteq toFollow
     /\ UsersOf(unfollowed) \subseteq toUnfollow
     /\ toFollow \cap toUnfollow = {}
     /\ \A u \in toFollow \cup toUnfollow : RecordsHolding(u) = 1

\* a sync returned with a user followed, a user unfollowed and a user skipped after an error
C37_Witness ==
  /\ op = "sync_followers" /\ result = "ok" /\ ~dryRun
  /\ followed # <<>>
  /\ unfollowed # <<>>
  /\ \E u \in DOMAIN skipped : skipped[u] = "error:GitHubAPIError"
  /\ Cardinality(toFollow \cup toUnfollow) = NumUsers

\* both lists have been fetched whole
ListsFetched == followers = args.followers /\ following = args.following

\* the sync has acted: a follow or unfollow request was issued, or a candidate recorded
SyncActed == calls # <<>> \/ followed # <<>> \/ unfollowed # <<>> \/ DOMAIN skipped # {}

\* C38: when the fetch of the followers or of the following list fails, sync_followers raises before any follow or unfollow request is issued: whenever the sync has acted, both lists had been fetched whole.
C38_NoActionOnFailedFetch ==
  (op = "sync_followers") =>
     /\ SyncActed => (ListsFetched /\ gets = 2)
     /\ (lastOutcome.kind \in FetchErrors /\ calls = <<>>) =>
          (result = "error" /\ ~SyncActed /\ todo = <<>>)

\* the followers were fetched, the fetch of a non-empty following list failed, and the sync raised without a request
C38_Witness ==
  /\ op = "sync_followers"
  /\ result = "error"
  /\ gets = 2
  /\ followers = args.followers
  /\ followers # {}
  /\ args.following # {}
  /\ following = {}
  /\ ~dryRun
  /\ ~SyncActed

(***************************************************************************)
(* Claims about the dispatch of main.                                      *)
(***************************************************************************)
\* the --operation values that go through the provider registry
RegistryOperations == {"delete-workflows", "delete-packages", "delete-releases", "delete-cache"}

\* C39: for provider github, each of delete-workflows, delete-packages, delete-releases and delete-cache is dispatched with a label that GitHubProvider has registered: Provider.run is never called with an unregistered label and never raises KeyError.
C39_DispatchedLabelRegistered ==
  (op = "main" /\ args.provider = "github" /\ args.operation \in RegistryOperations) =>
     /\ \A i \in 1 .. Len(calls) : calls[i] \in operations
     /\ lastOutcome.kind # "KeyError"

====
